---- MODULE Spec2Model ----
(***************************************************************************)
(* Model of the interview engine (src/src/hooks/useInterviewEngine.ts) and *)
(* of the prompt assembler (src/src/services/promptAssembler.ts).          *)
(*                                                                         *)
(* Conventions                                                             *)
(*  - A JavaScript Map whose iteration order is never observed is a TLA+   *)
(*    function whose DOMAIN is the set of keys; weightValues, which is     *)
(*    iterated, is a sequence of entries in insertion order.               *)
(*  - `undefined` is the string Undefined for strings and ids.             *)
(*  - Template-literal ids are tuples: `temp-${n}-${a}` is <<"temp",n,a>>. *)
(*  - Numbers are in hundredths: 100 stands for 1.0.                       *)
(*  - Every handler runs to completion on the state of the latest render.  *)
(***************************************************************************)
EXTENDS Integers, Sequences, FiniteSets, TLC

VARIABLES
    interviewFiles,       \* ids of the nodes the loaded JSON files define
    currentNodeId,        \* useState<string>('root')
    history,              \* useState<string[]>(['root'])
    tempAnswers,          \* Map nodeId -> SelectedAnswer
    tempRefinements,      \* Map nodeId -> SelectedRefinement
    committedAnswers,     \* SelectedAnswer[]
    committedRefinements, \* SelectedRefinement[]
    weightValues,         \* Map key -> WeightValue, in insertion order
    tempIntensities,      \* Map nodeId -> number
    touchedWeights,       \* Set<string>
    enabledSliders,       \* Map attrId -> boolean
    customElements,       \* Array<{text, enabled, type}>
    entropy,              \* number of Date.now()/Math.random() ids drawn so far
    steps,                \* number of operations called so far
    last,                 \* the operation that produced this state
    run,                  \* observer of goToNext^N ; previous^N sequences
    assembled             \* the last call of the prompt assembler and its result

engine == <<currentNodeId, history, tempAnswers, tempRefinements,
            committedAnswers, committedRefinements, weightValues,
            tempIntensities, touchedWeights, enabledSliders, customElements>>

vars == <<interviewFiles, engine, entropy, steps, last, run, assembled>>

-----------------------------------------------------------------------------
(* Bounds of the model                                                     *)

\* operations per session
MaxSteps == 6

\* weights, custom elements and tags passed to one call of the assembler
MaxWeights == 2

MaxCustoms == 2

MaxTags == 2

-----------------------------------------------------------------------------
(* Generic helpers                                                         *)

Undefined == "undefined"

EmptyMap == <<>>

Has(m, k) == k \in DOMAIN m

MapSet(m, k, v) == [x \in DOMAIN m \cup {k} |-> IF x = k THEN v ELSE m[x]]

MapDelete(m, k) == [x \in DOMAIN m \ {k} |-> m[x]]

Last(s) == s[Len(s)]

Range(s) == {s[i] : i \in 1..Len(s)}

\* Index of the first element of s among the matching ones, 0 when there is none
\* (Array.prototype.find / findIndex)
FindIndex(s, matching) ==
    IF \E i \in 1..Len(s) : s[i] \in matching
    THEN CHOOSE i \in 1..Len(s) :
           s[i] \in matching /\ \A j \in 1..(i - 1) : s[j] \notin matching
    ELSE 0

-----------------------------------------------------------------------------
(* The node graph: nodeMap, built once from the interview JSON files.      *)
(* The data files are not part of the sources; this is a graph of the      *)
(* shape InterviewNode/RefinementNode with a regular node carrying weights *)
(* and a nested refinement, a refinement node, an NSFW weight-only node,   *)
(* the NSFW options hub, and one answer whose next is a dangling id; and,   *)
(* for the terminal condition, a refinement node without answers and a     *)
(* regular node whose answers end the flow and which nests a refinement.   *)

Answer(id, label, next) == [id |-> id, label |-> label, next |-> next]

WeightDef(id, template, default, tags) ==
    [id |-> id, template |-> template, default |-> default, tags |-> tags]

RefineSkin ==
    [id |-> "refine-skin", question |-> "What is the skin like?",
     answers |-> <<Answer("smooth", "Smooth", Undefined)>>,
     weights |-> <<WeightDef("gloss", "gloss", 100, <<>>)>>,
     refinements |-> <<>>]

InterviewNodes ==
    [n \in {"root", "character-build", "refine-skin", "nsfw-body", "nsfw-options",
            "refine-empty", "finale"} |->
       CASE n = "root" ->
              [id |-> n, question |-> "What is the subject?",
               answers |-> <<Answer("male", "Male", "character-build")>>,
               weights |-> <<>>, refinements |-> <<>>]
         [] n = "character-build" ->
              [id |-> n, question |-> "What is the body type?",
               answers |-> <<Answer("slim", "Slim", "refine-skin"),
                             Answer("athletic", "Athletic", "ghost")>>,
               weights |-> <<WeightDef("muscle", "muscle definition", 100, <<>>)>>,
               refinements |-> <<RefineSkin>>]
         [] n = "refine-skin" -> RefineSkin
         [] n = "nsfw-body" ->
              [id |-> n, question |-> "How is the body shaped?",
               answers |-> <<>>, weights |-> <<>>, refinements |-> <<>>]
         [] n = "nsfw-options" ->
              [id |-> n, question |-> "Which option?",
               answers |-> <<Answer("body", "Body", "nsfw-body")>>,
               weights |-> <<>>, refinements |-> <<>>]
         [] n = "refine-empty" ->
              [id |-> n, question |-> "How glossy?",
               answers |-> <<>>,
               weights |-> <<WeightDef("gloss", "gloss", 100, <<>>)>>,
               refinements |-> <<>>]
         [] n = "finale" ->
              [id |-> n, question |-> "What is the finish?",
               answers |-> <<Answer("matte", "Matte", Undefined)>>,
               weights |-> <<>>, refinements |-> <<RefineSkin>>]]

\* the files of the main flow, and those of a flow of leaves
MainFiles == {"root", "character-build", "refine-skin", "nsfw-body", "nsfw-options"}

LeafFiles == {"root", "refine-skin", "refine-empty", "finale"}

\* nodeMap.set(node.id, node) for every node of the loaded files
nodeMap == [n \in interviewFiles |-> InterviewNodes[n]]

NodeKeys == interviewFiles

\* nodeMap.has(id)
NodeMapHas(id) == id \in NodeKeys

\* currentNodeId.startsWith('refine-') and currentNodeId.startsWith('nsfw-')
StartsWithRefine(id) == id \in {"refine-skin", "refine-empty"}

StartsWithNsfw(id) == id \in {"nsfw-body", "nsfw-options"}

-----------------------------------------------------------------------------
(* Inputs the operations are called with                                   *)

\* answer ids passed to selectTempAnswer/selectTempRefinement at node nodeId:
\* the answers the node shows and one id it does not have
AnswerInputs(nodeId) ==
    (IF NodeMapHas(nodeId)
     THEN {nodeMap[nodeId].answers[i].id : i \in 1..Len(nodeMap[nodeId].answers)}
     ELSE {})
      \cup {"no-such-answer"}

\* node ids passed to jumpTo/jumpToCategory: nodes of the graph and an absent
\* id, and the leaves where the files define them
JumpInputs ==
    {"character-build", "nsfw-body", "ghost"} \cup ({"refine-empty", "finale"} \cap interviewFiles)

\* slider ids passed to setSliderEnabled: a weight definition of the graph and
\* the intensity slider, and the weight of the refinement in the flow of leaves
SliderInputs ==
    {"intensity", "muscle"} \cup (IF "finale" \in interviewFiles THEN {"gloss"} ELSE {})

\* slider values (hundredths)
ValueInputs == {150}

CustomTexts == {"tattoos"}

\* node ids passed to setIntensity
IntensityNodeInputs == {"character-build"}

-----------------------------------------------------------------------------
(* Identifiers                                                             *)

\* no id (associatedAnswerId: undefined)
NoId == <<>>

\* `temp-${currentNodeId}-${answerId}`
TempId(nodeId, answerId) == <<"temp", nodeId, answerId>>

\* `sel-${Date.now()}-${Math.random().toString(36).substr(2, 9)}`: the k-th
\* draw of the clock and the random source; draws are taken to be fresh
SelId(k) == <<"sel", k>>

\* `weight-${finalAnswerId}-${weightAttr.id}`
WeightId(selId, attrId) == <<"weight", selId, attrId>>

\* `weight-standalone-${Date.now()}-${Math.random()...}-${weightAttr.id}`
StandaloneWeightId(k, attrId) == <<"weight-standalone", k, attrId>>

\* key and id of the uncommitted weight setWeight creates: attrId, `temp-${attrId}`
TempWeightKey(attrId) == <<attrId>>

TempWeightId(attrId) == <<"temp", attrId>>

\* selection ids removeSelection is called with: the ids drawn so far and one
\* that was never given out
SelIdInputs == {SelId(k) : k \in 1..(entropy + 1)}

-----------------------------------------------------------------------------
(* Observers: the last operation, and runs of goToNext followed by previous *)

\* the call that produced the state: its name, its argument, the node that was
\* current when it was made, whether it changed the engine state and how many
\* weights it deleted
Op(name, arg, node, changed, dropped) ==
    [op |-> name, arg |-> arg, node |-> node, changed |-> changed, dropped |-> dropped]

\* every operation is one more call of the session
Call(name, arg) ==
    /\ steps < MaxSteps
    /\ steps' = steps + 1
    /\ UNCHANGED <<interviewFiles, assembled>>
    /\ last' = Op(name, arg, currentNodeId, engine' # engine,
                  IF Len(weightValues') < Len(weightValues)
                  THEN Len(weightValues) - Len(weightValues') ELSE 0)

\* no call of the assembler yet
NoCall == [op |-> "none", args |-> <<>>, result |-> <<>>, again |-> FALSE]

NoRun == [n |-> 0, back |-> 0, cur |-> "root", top |-> "root", adv |-> TRUE,
          pure |-> TRUE]

\* a goToNext call; moved says whether it changed the position
RunNext(moved) ==
    IF run.n > 0 /\ run.back = 0
    THEN [run EXCEPT !.n = @ + 1, !.adv = @ /\ moved]
    ELSE [n |-> 1, back |-> 0, cur |-> currentNodeId, top |-> Last(history),
          adv |-> moved, pure |-> TRUE]

\* a selectTempAnswer call: the selection a goToNext call needs does not
\* interrupt the goToNext calls of a run, which is then no longer pure
RunSelect ==
    IF run.n > 0 /\ run.back = 0 THEN [run EXCEPT !.pure = FALSE] ELSE NoRun

\* a previous call
RunPrevious ==
    IF run.n > 0 /\ run.back < run.n
    THEN [run EXCEPT !.back = @ + 1]
    ELSE NoRun

-----------------------------------------------------------------------------
(* State after construction (useInterviewEngine, the useState calls)       *)

\* the state after construction when the loaded files define the nodes `files`
InitialState(files) ==
    /\ interviewFiles = files
    /\ currentNodeId = "root"
    /\ history = <<"root">>
    /\ tempAnswers = EmptyMap
    /\ tempRefinements = EmptyMap
    /\ committedAnswers = <<>>
    /\ committedRefinements = <<>>
    /\ weightValues = <<>>
    /\ tempIntensities = EmptyMap
    /\ touchedWeights = {}
    /\ enabledSliders = EmptyMap
    /\ customElements = <<>>
    /\ entropy = 0
    /\ steps = 0
    /\ last = Op("init", NoId, "root", FALSE, 0)
    /\ run = NoRun
    /\ assembled = NoCall

Init == InitialState(MainFiles)

\* the data files do not define the NSFW options hub
InitNoHub == InitialState(MainFiles \ {"nsfw-options"})

InitLeaves == InitialState(LeafFiles)

\* const currentNode = nodeMap.get(currentNodeId)
HasCurrentNode == NodeMapHas(currentNodeId)

currentNode == nodeMap[currentNodeId]

\* nodes that hold temporary state
TempNodes == DOMAIN tempAnswers \cup DOMAIN tempRefinements \cup DOMAIN tempIntensities

\* ClearTemp with the deletion from tempIntensities and tempRefinements left out
ClearTempAnswersOnly(nodeId) ==
    /\ tempAnswers' = MapDelete(tempAnswers, nodeId)
    /\ UNCHANGED <<tempRefinements, tempIntensities>>

\* the three deletions "Clear temp selections" every exit and commit performs
ClearTemp(nodeId) ==
    /\ tempAnswers' = MapDelete(tempAnswers, nodeId)
    /\ tempRefinements' = MapDelete(tempRefinements, nodeId)
    /\ tempIntensities' = MapDelete(tempIntensities, nodeId)

-----------------------------------------------------------------------------
(* Select                                                                  *)

\* selectTempAnswer dropping the temporary refinement of the node as well
selectTempAnswerClearingRefinement(answerId) ==
    /\ run' = RunSelect
    /\ IF HasCurrentNode
          /\ \E i \in 1..Len(currentNode.answers) : currentNode.answers[i].id = answerId
       THEN LET i == FindIndex(currentNode.answers, {a \in Range(currentNode.answers) : a.id = answerId})
                answer == currentNode.answers[i]
            IN  /\ tempAnswers' = MapSet(tempAnswers, currentNodeId,
                      [id |-> TempId(currentNodeId, answerId),
                       nodeId |-> currentNodeId,
                       answerId |-> answer.id,
                       label |-> answer.label,
                       questionText |-> currentNode.question])
       ELSE UNCHANGED tempAnswers
    /\ tempRefinements' = MapDelete(tempRefinements, currentNodeId)
    /\ UNCHANGED <<currentNodeId, history, committedAnswers,
                   committedRefinements, weightValues, tempIntensities,
                   touchedWeights, enabledSliders, customElements, entropy>>
    /\ Call("selectTempAnswer", <<answerId>>)

selectTempAnswer(answerId) ==
    /\ run' = RunSelect
    /\ IF HasCurrentNode
          /\ \E i \in 1..Len(currentNode.answers) : currentNode.answers[i].id = answerId
       THEN LET i == FindIndex(currentNode.answers, {a \in Range(currentNode.answers) : a.id = answerId})
                answer == currentNode.answers[i]
            IN  /\ tempAnswers' = MapSet(tempAnswers, currentNodeId,
                      [id |-> TempId(currentNodeId, answerId),
                       nodeId |-> currentNodeId,
                       answerId |-> answer.id,
                       label |-> answer.label,
                       questionText |-> currentNode.question])
       ELSE UNCHANGED tempAnswers
    /\ UNCHANGED <<currentNodeId, history, tempRefinements, committedAnswers,
                   committedRefinements, weightValues, tempIntensities,
                   touchedWeights, enabledSliders, customElements, entropy>>
    /\ Call("selectTempAnswer", <<answerId>>)

\* selectTempRefinement initialising the intensity before looking up the answer
selectTempRefinementInitIntensity(answerId) ==
    /\ run' = NoRun
    /\ IF HasCurrentNode
          /\ \E i \in 1..Len(currentNode.answers) : currentNode.answers[i].id = answerId
       THEN LET i == FindIndex(currentNode.answers, {a \in Range(currentNode.answers) : a.id = answerId})
                answer == currentNode.answers[i]
            IN  /\ tempRefinements' = MapSet(tempRefinements, currentNodeId,
                      [id |-> TempId(currentNodeId, answerId),
                       refinementId |-> currentNodeId,
                       answerId |-> answer.id,
                       label |-> answer.label,
                       questionText |-> currentNode.question])
       ELSE UNCHANGED tempRefinements
    /\ tempIntensities' =
          IF Has(tempIntensities, currentNodeId) THEN tempIntensities
          ELSE MapSet(tempIntensities, currentNodeId, 100)
    /\ UNCHANGED <<currentNodeId, history, tempAnswers, committedAnswers,
                   committedRefinements, weightValues, touchedWeights,
                   enabledSliders, customElements, entropy>>
    /\ Call("selectTempRefinement", <<answerId>>)

selectTempRefinement(answerId) ==
    /\ run' = NoRun
    /\ IF HasCurrentNode
          /\ \E i \in 1..Len(currentNode.answers) : currentNode.answers[i].id = answerId
       THEN LET i == FindIndex(currentNode.answers, {a \in Range(currentNode.answers) : a.id = answerId})
                answer == currentNode.answers[i]
            IN  /\ tempRefinements' = MapSet(tempRefinements, currentNodeId,
                      [id |-> TempId(currentNodeId, answerId),
                       refinementId |-> currentNodeId,
                       answerId |-> answer.id,
                       label |-> answer.label,
                       questionText |-> currentNode.question])
                /\ tempIntensities' =
                      IF Has(tempIntensities, currentNodeId) THEN tempIntensities
                      ELSE MapSet(tempIntensities, currentNodeId, 100)
       ELSE UNCHANGED <<tempRefinements, tempIntensities>>
    /\ UNCHANGED <<currentNodeId, history, tempAnswers, committedAnswers,
                   committedRefinements, weightValues, touchedWeights,
                   enabledSliders, customElements, entropy>>
    /\ Call("selectTempRefinement", <<answerId>>)

-----------------------------------------------------------------------------
(* Commit                                                                  *)

\* m.set(key, w) on the ordered weight map: a present key keeps its place
WeightSet(wv, w) ==
    LET i == FindIndex(wv, {x \in Range(wv) : x.key = w.key})
    IN  IF i > 0 THEN [wv EXCEPT ![i] = w] ELSE Append(wv, w)

WeightValue(key, attrId, value, template, tags, selId, label) ==
    [key |-> key, id |-> key, attrId |-> attrId, value |-> value,
     template |-> template, tags |-> tags,
     associatedAnswerId |-> selId, answerLabel |-> label]

RECURSIVE RefinementWeights(_)
\* refinementWeights.push(...refinement.weights) for each nested refinement
RefinementWeights(refinements) ==
    IF refinements = <<>> THEN <<>>
    ELSE Head(refinements).weights \o RefinementWeights(Tail(refinements))

\* allWeights = [...nodeWeights, ...refinementWeights]; a node whose id starts
\* with 'refine-' contributes its own weights a second time
AllWeights ==
    currentNode.weights
      \o RefinementWeights(currentNode.refinements)
      \o (IF StartsWithRefine(currentNodeId) THEN nodeMap[currentNodeId].weights ELSE <<>>)

NoSelection == [id |-> NoId, label |-> Undefined]

\* the loop over history[history.length - 2 .. 0]: the first committed answer,
\* else the first committed refinement, of the nearest earlier history entry
\* that has one
ContextualSelection ==
    LET AnswerAt(i) == FindIndex(committedAnswers, {a \in Range(committedAnswers) : a.nodeId = history[i]})
        RefinementAt(i) ==
            FindIndex(committedRefinements, {r \in Range(committedRefinements) : r.refinementId = history[i]})
        hits == {i \in 1..(Len(history) - 1) : AnswerAt(i) > 0 \/ RefinementAt(i) > 0}
    IN  IF hits = {} THEN NoSelection
        ELSE LET i == CHOOSE h \in hits : \A g \in hits : g <= h
             IN  IF AnswerAt(i) > 0
                 THEN [id |-> committedAnswers[AnswerAt(i)].id,
                       label |-> committedAnswers[AnswerAt(i)].label]
                 ELSE [id |-> committedRefinements[RefinementAt(i)].id,
                       label |-> committedRefinements[RefinementAt(i)].label]

RECURSIVE CommitWeightsNeedingAnswer(_, _, _, _, _)
\* CommitWeights passing over the touched weights of a commit without answer
\* context: wv is the weight map under
\* construction, ent the ids drawn so far; the look-ups read the weightValues,
\* touchedWeights and enabledSliders of the render the handler closed over
CommitWeightsNeedingAnswer(defs, wv, ent, finalAnswerId, finalAnswerLabel) ==
    IF defs = <<>> THEN [weights |-> wv, entropy |-> ent]
    ELSE
      LET weightAttr == Head(defs)
          isEnabled == Has(enabledSliders, weightAttr.id) /\ enabledSliders[weightAttr.id]
          shouldCommit == finalAnswerId # NoId
          direct == FindIndex(weightValues, {w \in Range(weightValues) : w.key = TempWeightKey(weightAttr.id)})
          found == FindIndex(weightValues,
                     {w \in Range(weightValues) : w.attrId = weightAttr.id /\ w.associatedAnswerId = NoId})
          cw == IF direct > 0 THEN direct ELSE found
          weightValue == IF cw > 0 THEN weightValues[cw].value ELSE weightAttr.default
          weightTags == IF cw > 0 THEN weightValues[cw].tags ELSE weightAttr.tags
      IN  IF ~isEnabled \/ ~shouldCommit
          THEN CommitWeightsNeedingAnswer(Tail(defs), wv, ent, finalAnswerId, finalAnswerLabel)
          ELSE IF finalAnswerId # NoId /\ finalAnswerLabel # Undefined
          THEN CommitWeightsNeedingAnswer(Tail(defs),
                 WeightSet(wv, WeightValue(WeightId(finalAnswerId, weightAttr.id),
                             weightAttr.id, weightValue, weightAttr.template,
                             weightTags, finalAnswerId, finalAnswerLabel)),
                 ent, finalAnswerId, finalAnswerLabel)
          ELSE CommitWeightsNeedingAnswer(Tail(defs),
                 WeightSet(wv, WeightValue(StandaloneWeightId(ent + 1, weightAttr.id),
                             weightAttr.id, weightValue, weightAttr.template,
                             weightTags, NoId, Undefined)),
                 ent + 1, finalAnswerId, finalAnswerLabel)

RECURSIVE CommitWeights(_, _, _, _, _)
\* allWeights.forEach(weightAttr => ...): wv is the weight map under
\* construction, ent the ids drawn so far; the look-ups read the weightValues,
\* touchedWeights and enabledSliders of the render the handler closed over
CommitWeights(defs, wv, ent, finalAnswerId, finalAnswerLabel) ==
    IF defs = <<>> THEN [weights |-> wv, entropy |-> ent]
    ELSE
      LET weightAttr == Head(defs)
          isEnabled == Has(enabledSliders, weightAttr.id) /\ enabledSliders[weightAttr.id]
          shouldCommit == weightAttr.id \in touchedWeights \/ finalAnswerId # NoId
          direct == FindIndex(weightValues, {w \in Range(weightValues) : w.key = TempWeightKey(weightAttr.id)})
          found == FindIndex(weightValues,
                     {w \in Range(weightValues) : w.attrId = weightAttr.id /\ w.associatedAnswerId = NoId})
          cw == IF direct > 0 THEN direct ELSE found
          weightValue == IF cw > 0 THEN weightValues[cw].value ELSE weightAttr.default
          weightTags == IF cw > 0 THEN weightValues[cw].tags ELSE weightAttr.tags
      IN  IF ~isEnabled \/ ~shouldCommit
          THEN CommitWeights(Tail(defs), wv, ent, finalAnswerId, finalAnswerLabel)
          ELSE IF finalAnswerId # NoId /\ finalAnswerLabel # Undefined
          THEN CommitWeights(Tail(defs),
                 WeightSet(wv, WeightValue(WeightId(finalAnswerId, weightAttr.id),
                             weightAttr.id, weightValue, weightAttr.template,
                             weightTags, finalAnswerId, finalAnswerLabel)),
                 ent, finalAnswerId, finalAnswerLabel)
          ELSE CommitWeights(Tail(defs),
                 WeightSet(wv, WeightValue(StandaloneWeightId(ent + 1, weightAttr.id),
                             weightAttr.id, weightValue, weightAttr.template,
                             weightTags, NoId, Undefined)),
                 ent + 1, finalAnswerId, finalAnswerLabel)

\* the id the commit gives the promoted answer; k is the draw
CommittedAnswerId(tempAnswer, k) == SelId(k)

\* CommittedRefinementId reusing the id drawn for the answer of the same call
ReusedAnswerId(committedAnswerId, k) ==
    IF committedAnswerId # NoId THEN committedAnswerId ELSE SelId(k)

\* the id the commit gives the promoted refinement
CommittedRefinementId(committedAnswerId, k) == SelId(k)

\* CommittedAnswersWith replacing the committed answer of the same node
ReplacedAnswerOfNode(tempAnswer, id) ==
    Append(SelectSeq(committedAnswers, LAMBDA a : a.nodeId # tempAnswer.nodeId),
           [tempAnswer EXCEPT !.id = id])

\* setCommittedAnswers(prev => [...prev, {...tempAnswer, id: committedAnswerId}])
CommittedAnswersWith(tempAnswer, id) ==
    Append(committedAnswers, [tempAnswer EXCEPT !.id = id])

\* IntensityWeights without the exception for the root question
IntensityWeightsAtRoot(wv, committedAnswerId, answerLabel) ==
    IF Has(enabledSliders, "intensity") /\ enabledSliders["intensity"]
       /\ committedAnswerId # NoId /\ answerLabel # Undefined
    THEN WeightSet(wv, WeightValue(WeightId(committedAnswerId, "intensity"),
                     "intensity",
                     IF Has(tempIntensities, currentNodeId)
                     THEN tempIntensities[currentNodeId] ELSE 100,
                     "intensity", <<>>, committedAnswerId, answerLabel))
    ELSE wv

\* the intensity weight of the promoted answer
IntensityWeights(wv, committedAnswerId, answerLabel) ==
    IF currentNodeId # "root"
       /\ Has(enabledSliders, "intensity") /\ enabledSliders["intensity"]
       /\ committedAnswerId # NoId /\ answerLabel # Undefined
    THEN WeightSet(wv, WeightValue(WeightId(committedAnswerId, "intensity"),
                     "intensity",
                     IF Has(tempIntensities, currentNodeId)
                     THEN tempIntensities[currentNodeId] ELSE 100,
                     "intensity", <<>>, committedAnswerId, answerLabel))
    ELSE wv

\* "Clear touched weights for current node after committing"
ClearTouched ==
    IF HasCurrentNode
    THEN touchedWeights \ {currentNode.weights[i].id : i \in 1..Len(currentNode.weights)}
    ELSE touchedWeights

commitCurrentSelections ==
    LET hasAnswer == Has(tempAnswers, currentNodeId)
        hasRefinement == Has(tempRefinements, currentNodeId)
        e1 == IF hasAnswer THEN entropy + 1 ELSE entropy
        e2 == IF hasRefinement THEN e1 + 1 ELSE e1
        committedAnswerId ==
            IF hasAnswer THEN CommittedAnswerId(tempAnswers[currentNodeId], e1) ELSE NoId
        newId == CommittedRefinementId(committedAnswerId, e2)
        answerLabel ==
            IF hasAnswer THEN tempAnswers[currentNodeId].label
            ELSE IF hasRefinement THEN tempRefinements[currentNodeId].label
            ELSE Undefined
        wv1 == IntensityWeights(weightValues, committedAnswerId, answerLabel)
        contextual ==
            IF committedAnswerId = NoId /\ Len(history) > 1
            THEN ContextualSelection ELSE NoSelection
        finalAnswerId == IF committedAnswerId # NoId THEN committedAnswerId ELSE contextual.id
        finalAnswerLabel == IF answerLabel # Undefined THEN answerLabel ELSE contextual.label
        res == IF HasCurrentNode
               THEN CommitWeights(AllWeights, wv1, e2, finalAnswerId, finalAnswerLabel)
               ELSE [weights |-> wv1, entropy |-> e2]
    IN  /\ run' = NoRun
        /\ committedAnswers' =
              IF hasAnswer
              THEN CommittedAnswersWith(tempAnswers[currentNodeId], committedAnswerId)
              ELSE committedAnswers
        /\ committedRefinements' =
              IF hasRefinement
              THEN Append(committedRefinements,
                          [tempRefinements[currentNodeId] EXCEPT !.id = newId])
              ELSE committedRefinements
        /\ weightValues' = res.weights
        /\ entropy' = res.entropy
        /\ ClearTemp(currentNodeId)
        /\ touchedWeights' = ClearTouched
        /\ UNCHANGED <<currentNodeId, history, enabledSliders, customElements>>
        /\ Call("commitCurrentSelections", NoId)

-----------------------------------------------------------------------------
(* Navigation                                                              *)

\* Advance with the push onto history left out
AdvanceWithoutPush(nextId) ==
    /\ UNCHANGED history
    /\ currentNodeId' = nextId
    /\ ClearTemp(currentNodeId)

\* setHistory(prev => [...prev, nextId]); setCurrentNodeId(nextId); clear temp
Advance(nextId) ==
    /\ history' = Append(history, nextId)
    /\ currentNodeId' = nextId
    /\ ClearTemp(currentNodeId)

Stay == UNCHANGED <<currentNodeId, history, tempAnswers, tempRefinements,
                    tempIntensities>>

\* weight-only NSFW node: no answers, id starts with 'nsfw-', not the hub
IsNsfwWeightOnly ==
    /\ Len(currentNode.answers) = 0
    /\ StartsWithNsfw(currentNodeId)
    /\ currentNodeId # "nsfw-options"

\* the successor skipToNext resolves, Undefined when it returns without moving
SkipTarget ==
    IF ~HasCurrentNode THEN Undefined
    ELSE IF IsNsfwWeightOnly THEN "nsfw-options"
    ELSE IF Len(currentNode.answers) > 0 /\ currentNode.answers[1].next # Undefined
    THEN currentNode.answers[1].next
    ELSE IF Len(currentNode.refinements) > 0
    THEN currentNode.refinements[1].id
    ELSE Undefined

skipToNext ==
    /\ run' = NoRun
    /\ IF SkipTarget # Undefined THEN Advance(SkipTarget) ELSE Stay
    /\ UNCHANGED <<committedAnswers, committedRefinements, weightValues,
                   touchedWeights, enabledSliders, customElements, entropy>>
    /\ Call("skipToNext", NoId)

\* NextTarget taking the temporary answer before the committed one
NextTargetTempFirst ==
    IF ~HasCurrentNode THEN Undefined
    ELSE IF IsNsfwWeightOnly /\ NodeMapHas("nsfw-options") THEN "nsfw-options"
    ELSE IF Len(currentNode.answers) = 0 THEN Undefined
    ELSE
      LET c == FindIndex(committedAnswers, {a \in Range(committedAnswers) : a.nodeId = currentNodeId})
          navAnswerId ==
              IF Has(tempAnswers, currentNodeId)
              THEN tempAnswers[currentNodeId].answerId
              ELSE IF c > 0 THEN committedAnswers[c].answerId
              ELSE Undefined
          i == FindIndex(currentNode.answers, {a \in Range(currentNode.answers) : a.id = navAnswerId})
      IN  IF navAnswerId = Undefined \/ i = 0 THEN Undefined
          ELSE currentNode.answers[i].next

\* the successor goToNext resolves, Undefined when it returns without moving
NextTarget ==
    IF ~HasCurrentNode THEN Undefined
    ELSE IF IsNsfwWeightOnly /\ NodeMapHas("nsfw-options") THEN "nsfw-options"
    ELSE IF Len(currentNode.answers) = 0 THEN Undefined
    ELSE
      LET c == FindIndex(committedAnswers, {a \in Range(committedAnswers) : a.nodeId = currentNodeId})
          navAnswerId ==
              IF c > 0 THEN committedAnswers[c].answerId
              ELSE IF Has(tempAnswers, currentNodeId)
              THEN tempAnswers[currentNodeId].answerId
              ELSE Undefined
          i == FindIndex(currentNode.answers, {a \in Range(currentNode.answers) : a.id = navAnswerId})
      IN  IF navAnswerId = Undefined \/ i = 0 THEN Undefined
          ELSE currentNode.answers[i].next

goToNext ==
    /\ run' = RunNext(NextTarget # Undefined)
    /\ IF NextTarget # Undefined THEN Advance(NextTarget) ELSE Stay
    /\ UNCHANGED <<committedAnswers, committedRefinements, weightValues,
                   touchedWeights, enabledSliders, customElements, entropy>>
    /\ Call("goToNext", NoId)

\* newHistory.pop()
PoppedHistory == SubSeq(history, 1, Len(history) - 1)

\* newHistory[newHistory.length - 1]
PoppedTop == IF PoppedHistory = <<>> THEN Undefined ELSE Last(PoppedHistory)

\* PreviousReturns letting a history of one element through
PreviousReturnsOnEmpty == Len(history) < 1

\* if (history.length <= 1) return
PreviousReturns == Len(history) <= 1

\* previous without the clearing of the temporary state of the node left
previousKeepingTemp ==
    /\ run' = RunPrevious
    /\ IF PreviousReturns THEN Stay
       ELSE /\ history' = PoppedHistory
            /\ currentNodeId' = PoppedTop
            /\ UNCHANGED <<tempAnswers, tempRefinements, tempIntensities>>
    /\ UNCHANGED <<committedAnswers, committedRefinements, weightValues,
                   touchedWeights, enabledSliders, customElements, entropy>>
    /\ Call("previous", NoId)

previous ==
    /\ run' = RunPrevious
    /\ IF PreviousReturns THEN Stay
       ELSE /\ history' = PoppedHistory
            /\ currentNodeId' = PoppedTop
            /\ ClearTemp(currentNodeId)
    /\ UNCHANGED <<committedAnswers, committedRefinements, weightValues,
                   touchedWeights, enabledSliders, customElements, entropy>>
    /\ Call("previous", NoId)

\* HistoryWith never pushing
HistoryKept(nodeId) == history

\* if (!history.includes(nodeId)) setHistory(prev => [...prev, nodeId])
HistoryWith(nodeId) ==
    IF nodeId \in Range(history) THEN history ELSE Append(history, nodeId)

\* JumpEffect without the clearing of the temporary state
JumpEffectKeepingTemp(nodeId) ==
    /\ UNCHANGED <<tempAnswers, tempRefinements, tempIntensities>>
    /\ currentNodeId' = nodeId
    /\ history' = HistoryWith(nodeId)

\* the effect of jumpTo on an existing node
JumpEffect(nodeId) ==
    /\ ClearTemp(currentNodeId)
    /\ currentNodeId' = nodeId
    /\ history' = HistoryWith(nodeId)

\* jumpTo without `if (!nodeMap.has(nodeId)) return`
jumpToUnguarded(nodeId) ==
    /\ run' = NoRun
    /\ JumpEffect(nodeId)
    /\ UNCHANGED <<committedAnswers, committedRefinements, weightValues,
                   touchedWeights, enabledSliders, customElements, entropy>>
    /\ Call("jumpTo", <<nodeId>>)

jumpTo(nodeId) ==
    /\ run' = NoRun
    /\ IF ~NodeMapHas(nodeId) THEN Stay ELSE JumpEffect(nodeId)
    /\ UNCHANGED <<committedAnswers, committedRefinements, weightValues,
                   touchedWeights, enabledSliders, customElements, entropy>>
    /\ Call("jumpTo", <<nodeId>>)

\* jumpToCategory without `if (!nodeMap.has(nodeId)) return`
jumpToCategoryUnguarded(nodeId) ==
    /\ run' = NoRun
    /\ currentNodeId' = nodeId
    /\ history' = HistoryWith(nodeId)
    /\ UNCHANGED <<tempAnswers, tempRefinements, tempIntensities,
                   committedAnswers, committedRefinements, weightValues,
                   touchedWeights, enabledSliders, customElements, entropy>>
    /\ Call("jumpToCategory", <<nodeId>>)

\* jumpToCategory clearing the temporary state of the node left, as jumpTo does
jumpToCategoryClearingTemp(nodeId) ==
    /\ run' = NoRun
    /\ IF ~NodeMapHas(nodeId) THEN Stay ELSE JumpEffect(nodeId)
    /\ UNCHANGED <<committedAnswers, committedRefinements, weightValues,
                   touchedWeights, enabledSliders, customElements, entropy>>
    /\ Call("jumpToCategory", <<nodeId>>)

jumpToCategory(nodeId) ==
    /\ run' = NoRun
    /\ IF ~NodeMapHas(nodeId) THEN UNCHANGED <<currentNodeId, history>>
       ELSE /\ currentNodeId' = nodeId
            /\ history' = HistoryWith(nodeId)
    /\ UNCHANGED <<tempAnswers, tempRefinements, tempIntensities,
                   committedAnswers, committedRefinements, weightValues,
                   touchedWeights, enabledSliders, customElements, entropy>>
    /\ Call("jumpToCategory", <<nodeId>>)

-----------------------------------------------------------------------------
(* Sliders, weights, custom elements                                       *)

setIntensity(nodeId, value) ==
    /\ run' = NoRun
    /\ tempIntensities' = MapSet(tempIntensities, nodeId, value)
    /\ UNCHANGED <<currentNodeId, history, tempAnswers, tempRefinements,
                   committedAnswers, committedRefinements, weightValues,
                   touchedWeights, enabledSliders, customElements, entropy>>
    /\ Call("setIntensity", NoId)

setSliderEnabled(attrId, enabled) ==
    /\ run' = NoRun
    /\ enabledSliders' = MapSet(enabledSliders, attrId, enabled)
    /\ UNCHANGED <<currentNodeId, history, tempAnswers, tempRefinements,
                   committedAnswers, committedRefinements, weightValues,
                   tempIntensities, touchedWeights, customElements, entropy>>
    /\ Call("setSliderEnabled", NoId)

\* the weight map setWeight stores: the first entry for attrId that has no
\* associatedAnswerId is updated, else a temporary entry is added under attrId
SetWeightValues(attrId, value, template, tags) ==
    LET i == FindIndex(weightValues,
               {w \in Range(weightValues) : w.attrId = attrId /\ w.associatedAnswerId = NoId})
    IN  IF i > 0
        THEN [weightValues EXCEPT ![i] =
                [@ EXCEPT !.value = value, !.template = template, !.tags = tags]]
        ELSE Append(weightValues,
                [key |-> TempWeightKey(attrId), id |-> TempWeightId(attrId),
                 attrId |-> attrId, value |-> value, template |-> template,
                 tags |-> tags, associatedAnswerId |-> NoId,
                 answerLabel |-> Undefined])

setWeight(attrId, value, template, tags) ==
    /\ run' = NoRun
    /\ weightValues' = SetWeightValues(attrId, value, template, tags)
    /\ touchedWeights' = touchedWeights \cup {attrId}
    /\ UNCHANGED <<currentNodeId, history, tempAnswers, tempRefinements,
                   committedAnswers, committedRefinements, tempIntensities,
                   enabledSliders, customElements, entropy>>
    /\ Call("setWeight", NoId)

addCustomElement(element) ==
    /\ run' = NoRun
    /\ customElements' = Append(customElements,
                                [text |-> element, enabled |-> FALSE, type |-> "prompt"])
    /\ UNCHANGED <<currentNodeId, history, tempAnswers, tempRefinements,
                   committedAnswers, committedRefinements, weightValues,
                   tempIntensities, touchedWeights, enabledSliders, entropy>>
    /\ Call("addCustomElement", NoId)

setCustomElementType(index, type) ==
    /\ run' = NoRun
    /\ customElements' = [i \in 1..Len(customElements) |->
                            IF i = index + 1
                            THEN [customElements[i] EXCEPT !.type = type]
                            ELSE customElements[i]]
    /\ UNCHANGED <<currentNodeId, history, tempAnswers, tempRefinements,
                   committedAnswers, committedRefinements, weightValues,
                   tempIntensities, touchedWeights, enabledSliders, entropy>>
    /\ Call("setCustomElementType", NoId)

removeCustomElement(index) ==
    /\ run' = NoRun
    /\ customElements' =
          LET keep == {i \in 1..Len(customElements) : i # index + 1}
          IN  [j \in 1..Cardinality(keep) |->
                 customElements[CHOOSE i \in keep :
                                  Cardinality({k \in keep : k < i}) = j - 1]]
    /\ UNCHANGED <<currentNodeId, history, tempAnswers, tempRefinements,
                   committedAnswers, committedRefinements, weightValues,
                   tempIntensities, touchedWeights, enabledSliders, entropy>>
    /\ Call("removeCustomElement", NoId)

toggleCustomElement(index) ==
    /\ run' = NoRun
    /\ customElements' = [i \in 1..Len(customElements) |->
                            IF i = index + 1
                            THEN [customElements[i] EXCEPT !.enabled = ~@]
                            ELSE customElements[i]]
    /\ UNCHANGED <<currentNodeId, history, tempAnswers, tempRefinements,
                   committedAnswers, committedRefinements, weightValues,
                   tempIntensities, touchedWeights, enabledSliders, entropy>>
    /\ Call("toggleCustomElement", NoId)

-----------------------------------------------------------------------------
(* Removal and reset                                                       *)

\* WeightsWithout with the cascade left out
WeightsKept(selectionId) == weightValues

\* WeightsWithout deleting the weights without associatedAnswerId as well
WeightsWithoutUnbound(selectionId) ==
    SelectSeq(weightValues, LAMBDA w : w.associatedAnswerId # selectionId
                                       /\ w.associatedAnswerId # NoId)

\* the weights removeSelection keeps
WeightsWithout(selectionId) ==
    SelectSeq(weightValues, LAMBDA w : w.associatedAnswerId # selectionId)

\* RefinementsWithout with the filter of the refinements left out
RefinementsKept(selectionId) == committedRefinements

\* the committed refinements removeSelection keeps
RefinementsWithout(selectionId) ==
    SelectSeq(committedRefinements, LAMBDA r : r.id # selectionId)

removeSelection(selectionId) ==
    /\ run' = NoRun
    /\ committedAnswers' = SelectSeq(committedAnswers, LAMBDA a : a.id # selectionId)
    /\ committedRefinements' = RefinementsWithout(selectionId)
    /\ weightValues' = WeightsWithout(selectionId)
    /\ UNCHANGED <<currentNodeId, history, tempAnswers, tempRefinements,
                   tempIntensities, touchedWeights, enabledSliders,
                   customElements, entropy>>
    /\ Call("removeSelection", selectionId)

\* reset without setEnabledSliders(new Map())
resetKeepingSliders ==
    /\ run' = NoRun
    /\ currentNodeId' = "root"
    /\ history' = <<"root">>
    /\ committedAnswers' = <<>>
    /\ committedRefinements' = <<>>
    /\ tempAnswers' = EmptyMap
    /\ tempRefinements' = EmptyMap
    /\ tempIntensities' = EmptyMap
    /\ weightValues' = <<>>
    /\ touchedWeights' = {}
    /\ UNCHANGED enabledSliders
    /\ customElements' = <<>>
    /\ UNCHANGED entropy
    /\ Call("reset", NoId)

reset ==
    /\ run' = NoRun
    /\ currentNodeId' = "root"
    /\ history' = <<"root">>
    /\ committedAnswers' = <<>>
    /\ committedRefinements' = <<>>
    /\ tempAnswers' = EmptyMap
    /\ tempRefinements' = EmptyMap
    /\ tempIntensities' = EmptyMap
    /\ weightValues' = <<>>
    /\ touchedWeights' = {}
    /\ enabledSliders' = EmptyMap
    /\ customElements' = <<>>
    /\ UNCHANGED entropy
    /\ Call("reset", NoId)

-----------------------------------------------------------------------------
(* Specification                                                           *)

\* the weight definitions the sliders of the graph call setWeight with
\* isFinished(): the advisory terminal condition. A node is modelled with its
\* answers list present (possibly empty).
isFinished ==
    IF ~HasCurrentNode THEN TRUE
    ELSE IF StartsWithRefine(currentNodeId)
    THEN LET hasSelectedRefinement ==
                 \/ \E r \in Range(committedRefinements) : r.refinementId = currentNodeId
                 \/ Has(tempRefinements, currentNodeId)
         IN  IF ~hasSelectedRefinement THEN FALSE
             ELSE \A a \in Range(currentNode.answers) : a.next = Undefined
    ELSE IF Len(currentNode.answers) = 0 THEN TRUE
    ELSE \A a \in Range(currentNode.answers) :
             a.next = Undefined /\ Len(currentNode.refinements) = 0

WeightInputs ==
    UNION {Range(InterviewNodes[n].weights) : n \in DOMAIN InterviewNodes}

\* the operations other than jumpToCategory
NextNoCategory ==
    \/ \E a \in AnswerInputs(currentNodeId) : selectTempAnswer(a)
    \/ \E a \in AnswerInputs(currentNodeId) : selectTempRefinement(a)
    \/ commitCurrentSelections
    \/ skipToNext
    \/ goToNext
    \/ previous
    \/ \E n \in JumpInputs : jumpTo(n)
    \/ \E n \in IntensityNodeInputs, v \in ValueInputs : setIntensity(n, v)
    \/ \E a \in SliderInputs, b \in BOOLEAN : setSliderEnabled(a, b)
    \/ \E w \in WeightInputs, v \in ValueInputs : setWeight(w.id, v, w.template, w.tags)
    \/ \E t \in CustomTexts : addCustomElement(t)
    \/ \E i \in 0..Len(customElements), t \in {"prompt", "negative"} : setCustomElementType(i, t)
    \/ \E i \in 0..Len(customElements) : removeCustomElement(i)
    \/ \E i \in 0..Len(customElements) : toggleCustomElement(i)
    \/ \E id \in SelIdInputs : removeSelection(id)
    \/ reset

Next ==
    \/ NextNoCategory
    \/ \E n \in JumpInputs : jumpToCategory(n)

Spec == Init /\ [][Next]_vars

\* the sessions that never call jumpToCategory
SpecNoCategory == Init /\ [][NextNoCategory]_vars

SpecNoHub == InitNoHub /\ [][Next]_vars

SpecLeaves == InitLeaves /\ [][Next]_vars

-----------------------------------------------------------------------------
(* The prompt assembler.  Strings are TLA+ strings: Len, SubSeq and \o act *)
(* on them character by character.                                         *)

ABSTRACT_ANSWERS ==
    {"subtle", "moderate", "pronounced", "strong", "focused", "natural",
     "intense", "slight", "minimal", "extreme", "soft", "hard"}

BREAST_SHAPE_KEYWORDS ==
    {"round", "teardrop", "full", "shallow", "athletic", "wide-set",
     "close-set", "asymmetrical", "augmented", "natural"}

\* a string JavaScript takes as true in a condition
Truthy(s) == s # Undefined /\ s # ""

UpperCaseLetters == "ABCDEFGHIJKLMNOPQRSTUVWXYZ"
LowerCaseLetters == "abcdefghijklmnopqrstuvwxyz"
WhiteSpace == {" ", "\t", "\n", "\r"}

LowerChar(c) ==
    LET hits == {i \in 1..Len(UpperCaseLetters) : SubSeq(UpperCaseLetters, i, i) = c}
    IN  IF hits = {} THEN c
        ELSE LET i == CHOOSE h \in hits : TRUE IN SubSeq(LowerCaseLetters, i, i)

RECURSIVE ToLowerCase(_)
\* String.prototype.toLowerCase
ToLowerCase(s) ==
    IF s = "" THEN ""
    ELSE LowerChar(SubSeq(s, 1, 1)) \o ToLowerCase(SubSeq(s, 2, Len(s)))

\* String.prototype.trim
Trim(s) ==
    LET keep == {i \in 1..Len(s) : SubSeq(s, i, i) \notin WhiteSpace}
    IN  IF keep = {} THEN ""
        ELSE SubSeq(s, CHOOSE i \in keep : \A j \in keep : i <= j,
                       CHOOSE i \in keep : \A j \in keep : j <= i)

\* s has t at position i
StartsAt(s, i, t) ==
    /\ i >= 1
    /\ i + Len(t) - 1 <= Len(s)
    /\ SubSeq(s, i, i + Len(t) - 1) = t

\* String.prototype.includes
Includes(s, t) == \E i \in 1..(Len(s) - Len(t) + 1) : StartsAt(s, i, t)

EndsWith(s, t) == StartsAt(s, Len(s) - Len(t) + 1, t)

\* the block of expandAbstractAnswer for a breast/bust/upper-torso question
BreastExpansion(a, answer) ==
    CASE a = "subtle" -> "subtle breast definition with gentle anatomical silhouette"
      [] a = "moderate" -> "moderate breast definition with balanced curvature and natural proportions"
      [] a = "pronounced" -> "pronounced breast curvature with clearly defined upper-torso silhouette"
      [] a = "soft" -> "soft breast contours with smooth anatomical transitions"
      [] a = "hard" -> "firm breast contours with sculpted anatomical form"
      [] a = "minimal" -> "minimal breast projection with understated chest anatomy"
      [] a = "extreme" -> "highly emphasized breast curvature with dramatic anatomical silhouette"
      [] a = "strong" -> "strongly defined breast shape with enhanced anatomical contour"
      [] a = "intense" -> "intensely emphasized upper-torso anatomy and curvature"
      [] a = "round" -> "round breast shape with balanced fullness"
      [] a = "teardrop" -> "teardrop breast shape with lower-fullness profile"
      [] a = "full" -> "full, evenly distributed breast volume"
      [] a = "shallow" -> "shallow breast projection with gentle slope"
      [] a = "athletic" -> "athletic chest anatomy with minimal projection"
      [] a \in {"wide-set", "wide set", "east-west", "east_west"} ->
            "wide-set breast placement with visible sternum spacing"
      [] a \in {"close-set", "close set", "side-set", "side_set"} ->
            "close-set breast placement with narrow anatomical spacing"
      [] a \in {"asymmetric", "asymmetrical"} -> "naturally asymmetrical breast proportions"
      [] a = "augmented" -> "augmented breast shape with structured curvature"
      [] a = "natural" -> "natural breast shape with organic anatomical silhouette"
      [] a \in {"bell", "bell shape"} ->
            "bell-shaped breast profile with wider base and tapered top"
      [] a = "slender" -> "slender breast profile with elongated anatomical form"
      [] a = "relaxed" -> "relaxed breast tissue with natural downward contour"
      [] a = "conical" -> "conical breast shape with pointed anatomical structure"
      [] OTHER -> answer

\* the otherworldliness block: Undefined when it returns nothing
OtherworldExpansion(a) ==
    CASE a = "subtle" -> "subtle otherworldly presence"
      [] a = "moderate" -> "moderate degree of otherworldly traits"
      [] a = "pronounced" -> "strongly pronounced supernatural features"
      [] a = "extreme" -> "extremely vivid otherworldly appearance"
      [] OTHER -> Undefined

\* the blocks of expandAbstractAnswer after the otherworldliness block
TopicExpansion(a, q) ==
    IF Includes(q, "intensity") \/ Includes(q, "strength")
    THEN a \o " intensity level"
    ELSE IF Includes(q, "mood") \/ Includes(q, "emotion") \/ Includes(q, "personality")
    THEN a \o " emotional expression"
    ELSE IF Includes(q, "style") \/ Includes(q, "art style")
    THEN a \o " stylistic effect"
    ELSE IF Includes(q, "camera") \/ Includes(q, "perspective") \/ Includes(q, "angle")
    THEN a \o " camera perspective adjustment"
    ELSE IF Includes(q, "light") \/ Includes(q, "illumination")
    THEN a \o " lighting effect"
    ELSE IF Includes(q, "hair")
    THEN a \o " hair appearance"
    ELSE IF Includes(q, "body") \/ Includes(q, "build") \/ Includes(q, "shape")
    THEN a \o " physical trait"
    ELSE a \o " visual effect"

expandAbstractAnswer(answer, question) ==
    LET a == Trim(ToLowerCase(answer))
        q == ToLowerCase(question)
        isBreastContext ==
            \/ Includes(q, "breast")
            \/ Includes(q, "bust")
            \/ Includes(q, "chest anatomy")
            \/ Includes(q, "upper torso")
            \/ Includes(q, "torso shape")
        isOtherworld ==
            \/ Includes(q, "otherworld")
            \/ Includes(q, "supernatural")
            \/ Includes(q, "non-human")
    IN  IF ~(isBreastContext /\ a \in BREAST_SHAPE_KEYWORDS)
           /\ a \notin ABSTRACT_ANSWERS /\ a \notin BREAST_SHAPE_KEYWORDS
        THEN answer
        ELSE IF isBreastContext THEN BreastExpansion(a, answer)
        ELSE IF isOtherworld /\ OtherworldExpansion(a) # Undefined
        THEN OtherworldExpansion(a)
        ELSE TopicExpansion(a, q)

\* NORMALIZATION_RULES[tag](t); a tag without a rule leaves t as it is
NormalizationRule(tag, t) ==
    LET Prefixed(word, prefix) == IF ~Includes(t, word) THEN prefix \o " " \o t ELSE t
    IN  CASE tag = "hair" ->
               IF Includes(t, "wave") THEN "soft loose waves in the hair"
               ELSE IF Includes(t, "curl") THEN "defined hair curls"
               ELSE IF Includes(t, "volume") THEN "voluminous hairstyle"
               ELSE IF Includes(t, "texture") THEN "hair texture detailing"
               ELSE "hairstyle with " \o t
          [] tag = "eyes" -> Prefixed("eye", "eye")
          [] tag = "face" -> Prefixed("face", "facial")
          [] tag = "environment" ->
               IF Includes(t, "depth") THEN "environment depth layering"
               ELSE Prefixed("environment", "environment")
          [] tag = "lighting" -> Prefixed("light", "lighting")
          [] tag = "camera" -> Prefixed("camera", "camera")
          [] tag = "color" -> Prefixed("color", "color style")
          [] tag = "materials" -> t \o " material texture"
          [] tag = "clothing" -> Prefixed("clothing", "clothing")
          [] tag = "fabric" -> Prefixed("fabric", "fabric")
          [] tag = "armor" -> Prefixed("armor", "armor")
          [] tag = "magic" -> Prefixed("magic", "magical")
          [] tag = "expression" -> Prefixed("expression", "expression")
          [] tag = "pose" -> Prefixed("pose", "pose")
          [] OTHER -> t

RECURSIVE ApplyRules(_, _)
\* for (const tag of tags) { ... t = rule(t) }
ApplyRules(t, tags) ==
    IF tags = <<>> THEN t
    ELSE ApplyRules(NormalizationRule(Head(tags), t), Tail(tags))

normalizeTemplate(template, tags) == ApplyRules(Trim(ToLowerCase(template)), tags)

RECURSIVE Without(_, _)
\* s without the characters of the set chars
Without(s, chars) ==
    IF s = "" THEN ""
    ELSE (IF SubSeq(s, 1, 1) \in chars THEN "" ELSE SubSeq(s, 1, 1))
           \o Without(SubSeq(s, 2, Len(s)), chars)

\* the characters of the "(text:value)" weight syntax
ReservedChars == {"(", ")", ":"}

\* sanitizeTemplate({template, tags}) of ./templateSanitizer: a function of its
\* input whose output has no character of the weight syntax
sanitizeTemplate(template, tags) == Without(template, ReservedChars)

\* Number.prototype.toFixed(2) of a value in hundredths
ToFixed2(value) ==
    LET m == IF value < 0 THEN 0 - value ELSE value
        frac == m % 100
    IN  (IF value < 0 THEN "-" ELSE "") \o ToString(m \div 100) \o "."
          \o (IF frac < 10 THEN "0" ELSE "") \o ToString(frac)

\* `(${text}:${value.toFixed(2)})`
Fragment(text, value) == "(" \o text \o ":" \o ToFixed2(value) \o ")"

\* the group (.+?) of /what (?:are|is) (?:the )?(.+?)TAIL$/ on question, TAIL
\* being one of tails: the set holding the group, empty without a match.
\* The match is the leftmost one, takes "the " when it can, and the lazy
\* group is the shortest that reaches a tail at the end of the question.
MatchSubject(question, tails) ==
    LET n == Len(question)
        Group(g) ==
            LET fits == {t \in tails : EndsWith(question, t) /\ n - Len(t) >= g}
            IN  IF fits = {} THEN {}
                ELSE LET t == CHOOSE f \in fits : \A o \in fits : Len(o) <= Len(f)
                     IN  {SubSeq(question, g, n - Len(t))}
        At(i) ==
            LET verbs == {v \in {"what are ", "what is "} : StartsAt(question, i, v)}
            IN  IF verbs = {} THEN {}
                ELSE LET j == i + Len(CHOOSE v \in verbs : TRUE)
                     IN  IF StartsAt(question, j, "the ") /\ Group(j + 4) # {}
                         THEN Group(j + 4) ELSE Group(j)
        starts == {i \in 1..n : At(i) # {}}
    IN  IF starts = {} THEN {}
        ELSE At(CHOOSE i \in starts : \A j \in starts : i <= j)

\* the two patterns tried on the lower-cased question: "... like" / "... like?"
\* first, then "...?"
QuestionSubject(question) ==
    IF MatchSubject(question, {" like", " like?"}) # {}
    THEN MatchSubject(question, {" like", " like?"})
    ELSE MatchSubject(question, {"?"})

\* the part answers.forEach pushes for a committed answer
AnswerPart(a) ==
    LET label == IF Truthy(a.questionText)
                 THEN expandAbstractAnswer(a.label, a.questionText)
                 ELSE a.label
    IN  IF a.nodeId = "character-build"
        THEN ToLowerCase(label) \o " body type"
        ELSE IF Truthy(a.questionText)
                /\ Trim(ToLowerCase(a.label)) \notin ABSTRACT_ANSWERS
        THEN LET match == QuestionSubject(ToLowerCase(a.questionText))
             IN  IF match # {}
                 THEN ToLowerCase(label) \o " " \o Trim(CHOOSE g \in match : TRUE)
                 ELSE label
        ELSE label

\* the part refinements.forEach pushes for a committed refinement
RefinementPart(r) ==
    IF Truthy(r.questionText)
    THEN expandAbstractAnswer(r.label, r.questionText)
    ELSE r.label

\* the processed string of weight w, the text of the fragment it is to give:
\* the sanitized lower-cased answer label for an intensity weight, the
\* normalized and sanitized template (prefixed with the answer label) for any
\* other; Undefined for a weight the loop passes over (an intensity weight of
\* a root answer or without answer label)
ProcessedText(answers, w) ==
    IF w.attrId = "intensity"
    THEN IF ~Truthy(w.answerLabel)
            \/ \E a \in Range(answers) : a.id = w.associatedAnswerId /\ a.nodeId = "root"
         THEN Undefined
         ELSE sanitizeTemplate(ToLowerCase(w.answerLabel), w.tags)
    ELSE sanitizeTemplate(
           normalizeTemplate(
             IF Truthy(w.answerLabel)
                /\ ~Includes(ToLowerCase(w.template), ToLowerCase(w.answerLabel))
             THEN ToLowerCase(w.answerLabel) \o " " \o w.template
             ELSE w.template,
             w.tags),
           w.tags)

RECURSIVE WeightPartsRepeating(_, _, _)
\* WeightParts without the set of seen texts
WeightPartsRepeating(answers, weights, seen) ==
    IF weights = <<>> THEN <<>>
    ELSE IF ProcessedText(answers, Head(weights)) = Undefined
    THEN WeightPartsRepeating(answers, Tail(weights), seen)
    ELSE <<Fragment(ProcessedText(answers, Head(weights)), Head(weights).value)>>
           \o WeightPartsRepeating(answers, Tail(weights), seen)

RECURSIVE WeightPartsPrefixLate(_, _, _)
\* WeightParts prefixing the answer label after the normalization
WeightPartsPrefixLate(answers, weights, seen) ==
    IF weights = <<>> THEN <<>>
    ELSE
      LET w == Head(weights)
          rest == Tail(weights)
          normalized == normalizeTemplate(w.template, w.tags)
          text ==
              IF w.attrId = "intensity" THEN ProcessedText(answers, w)
              ELSE sanitizeTemplate(
                     IF Truthy(w.answerLabel)
                        /\ ~Includes(normalized, ToLowerCase(w.answerLabel))
                     THEN ToLowerCase(w.answerLabel) \o " " \o normalized
                     ELSE normalized,
                     w.tags)
      IN  IF text = Undefined \/ text \in seen
          THEN WeightPartsPrefixLate(answers, rest, seen)
          ELSE <<Fragment(text, w.value)>>
                 \o WeightPartsPrefixLate(answers, rest, seen \cup {text})

RECURSIVE WeightParts(_, _, _)
\* weights.forEach(w => ...): the parts pushed for weights, seen being the
\* texts already emitted
WeightParts(answers, weights, seen) ==
    IF weights = <<>> THEN <<>>
    ELSE
      LET w == Head(weights)
          rest == Tail(weights)
          isRootAnswer ==
              \E i \in 1..Len(answers) :
                  answers[i].id = w.associatedAnswerId /\ answers[i].nodeId = "root"
          safeLabel == sanitizeTemplate(ToLowerCase(w.answerLabel), w.tags)
          template ==
              IF Truthy(w.answerLabel)
                 /\ ~Includes(ToLowerCase(w.template), ToLowerCase(w.answerLabel))
              THEN ToLowerCase(w.answerLabel) \o " " \o w.template
              ELSE w.template
          safeTemplate == sanitizeTemplate(normalizeTemplate(template, w.tags), w.tags)
      IN  IF w.attrId = "intensity" /\ Truthy(w.answerLabel)
          THEN IF isRootAnswer \/ safeLabel \in seen
               THEN WeightParts(answers, rest, seen)
               ELSE <<Fragment(safeLabel, w.value)>>
                      \o WeightParts(answers, rest, seen \cup {safeLabel})
          ELSE IF w.attrId = "intensity"
          THEN WeightParts(answers, rest, seen)
          ELSE IF safeTemplate \in seen
          THEN WeightParts(answers, rest, seen)
          ELSE <<Fragment(safeTemplate, w.value)>>
                 \o WeightParts(answers, rest, seen \cup {safeTemplate})

RECURSIVE Join(_, _)
\* Array.prototype.join
Join(parts, separator) ==
    IF parts = <<>> THEN ""
    ELSE IF Len(parts) = 1 THEN parts[1]
    ELSE parts[1] \o separator \o Join(Tail(parts), separator)

\* the texts of the enabled custom elements of a type
EnabledCustomTexts(customs, type) ==
    LET chosen == SelectSeq(customs, LAMBDA c : c.enabled /\ (c.type = "prompt") = (type = "prompt"))
    IN  [i \in 1..Len(chosen) |-> chosen[i].text]

negativeParts ==
    <<"deformed", "distorted", "extra limbs", "low detail", "low quality", "bad anatomy">>

\* assemblePrompt taking the disabled elements into the negative prompt too
assemblePromptAllNegatives(answers, refinements, weights, customs) ==
    LET parts ==
            [i \in 1..Len(answers) |-> AnswerPart(answers[i])]
              \o [i \in 1..Len(refinements) |-> RefinementPart(refinements[i])]
              \o WeightParts(answers, weights, {})
              \o EnabledCustomTexts(customs, "prompt")
        negatives == SelectSeq(customs, LAMBDA c : c.type # "prompt")
    IN  [prompt |-> Join(parts, ", "),
         negativePrompt |->
            Join(negativeParts \o [i \in 1..Len(negatives) |-> negatives[i].text], ", ")]

\* assemblePrompt pushing the custom elements before the weight fragments
assemblePromptCustomsFirst(answers, refinements, weights, customs) ==
    LET parts ==
            [i \in 1..Len(answers) |-> AnswerPart(answers[i])]
              \o [i \in 1..Len(refinements) |-> RefinementPart(refinements[i])]
              \o EnabledCustomTexts(customs, "prompt")
              \o WeightParts(answers, weights, {})
    IN  [prompt |-> Join(parts, ", "),
         negativePrompt |-> Join(negativeParts \o EnabledCustomTexts(customs, "negative"), ", ")]

assemblePrompt(answers, refinements, weights, customs) ==
    LET parts ==
            [i \in 1..Len(answers) |-> AnswerPart(answers[i])]
              \o [i \in 1..Len(refinements) |-> RefinementPart(refinements[i])]
              \o WeightParts(answers, weights, {})
              \o EnabledCustomTexts(customs, "prompt")
    IN  [prompt |-> Join(parts, ", "),
         negativePrompt |-> Join(negativeParts \o EnabledCustomTexts(customs, "negative"), ", ")]

\* the weights getPreviewPrompt passes on: those without associatedAnswerId
\* and those of a committed answer
PreviewWeights ==
    LET committedAnswerIds == {committedAnswers[i].id : i \in 1..Len(committedAnswers)}
    IN  SelectSeq(weightValues,
                  LAMBDA w : w.associatedAnswerId = NoId
                             \/ w.associatedAnswerId \in committedAnswerIds)

getPreviewPrompt ==
    assemblePrompt(committedAnswers, committedRefinements, PreviewWeights, customElements)


-----------------------------------------------------------------------------
(* The assembler called on its own: assemblePrompt and normalizeTemplate   *)
(* are pure functions, applied here to arguments drawn from samples.       *)

\* the sequences over S of length at most n
SeqsUpTo(S, n) == UNION {[1..k -> S] : k \in 0..n}

\* SelectedAnswer values: the root answer and the body-type answer as the
\* engine commits them, and a root answer that carries no question text
AnswerSamples ==
    {[id |-> SelId(1), nodeId |-> "root", answerId |-> "male", label |-> "Male",
      questionText |-> "What is the subject?"],
     [id |-> SelId(1), nodeId |-> "root", answerId |-> "male", label |-> "Male",
      questionText |-> Undefined],
     [id |-> SelId(2), nodeId |-> "character-build", answerId |-> "slim",
      label |-> "Slim", questionText |-> "What is the body type?"]}

AnswerLists ==
    {<<>>} \cup {<<a>> : a \in {x \in AnswerSamples : x.nodeId = "root"}}
      \cup {<<a, b>> : a \in {x \in AnswerSamples : x.nodeId = "root"},
                       b \in {x \in AnswerSamples : x.nodeId # "root"}}

\* SelectedRefinement values
RefinementLists ==
    {<<>>,
     <<[id |-> SelId(3), refinementId |-> "refine-skin", answerId |-> "smooth",
        label |-> "Smooth", questionText |-> "What is the skin like?"]>>}

\* WeightValue values: the intensity of the root answer and of the body-type
\* answer, a weight bound to the body-type answer, a standalone weight whose
\* template is the text the bound weight is given, and a tagged weight
WeightSamples ==
    {WeightValue(WeightId(SelId(1), "intensity"), "intensity", 120, "intensity",
                 <<>>, SelId(1), "Male"),
     WeightValue(WeightId(SelId(2), "intensity"), "intensity", 130, "intensity",
                 <<>>, SelId(2), "Slim"),
     WeightValue(WeightId(SelId(2), "muscle"), "muscle", 150, "muscle definition",
                 <<>>, SelId(2), "Slim"),
     WeightValue(StandaloneWeightId(4, "muscle"), "muscle", 80, "Slim muscle definition",
                 <<>>, NoId, Undefined),
     WeightValue(StandaloneWeightId(5, "freckles"), "freckles", 110, "Freckles",
                 <<"face">>, NoId, Undefined)}

\* custom elements: enabled and disabled ones of either type
CustomSamples ==
    {[text |-> "tattoos", enabled |-> TRUE, type |-> "prompt"],
     [text |-> "scars", enabled |-> FALSE, type |-> "prompt"],
     [text |-> "blurry", enabled |-> TRUE, type |-> "negative"],
     [text |-> "cropped", enabled |-> FALSE, type |-> "negative"]}

\* the keys of NORMALIZATION_RULES
RuleTags ==
    {"hair", "eyes", "face", "environment", "lighting", "camera", "color",
     "materials", "clothing", "fabric", "armor", "magic", "expression", "pose"}

TemplateSamples == {"Freckles", " wavy ", "volume"}

\* answer labels: the entries of both catalogues as they are, some of them
\* capitalised as the interview shows them, and labels of neither catalogue
LabelSamples ==
    ABSTRACT_ANSWERS \cup BREAST_SHAPE_KEYWORDS
      \cup {"Subtle", "Focused", "Round", "Full", "Athletic", "Male", " Slim "}

\* question texts: one of the bust/chest context, and others
QuestionSamples ==
    {"What is the bust shape?", "What is the body type?",
     "How strong is the supernatural presence?", "What is the subject?"}

\* WeightValue values with an answer label: a template without the label, a
\* tagged template without the label, and templates that hold the label
LabelledWeightSamples ==
    {WeightValue(WeightId(SelId(6), "augmentations"), "augmentations", 75,
                 "augmentations", <<>>, SelId(6), "Cybernetic"),
     WeightValue(WeightId(SelId(2), "freckles"), "freckles", 110, "Freckles",
                 <<"face">>, SelId(2), "Slim"),
     WeightValue(WeightId(SelId(6), "implants"), "implants", 90,
                 "CYBERNETIC implants", <<>>, SelId(6), "Cybernetic"),
     WeightValue(WeightId(SelId(2), "face"), "face", 95, "slim Face",
                 <<"face">>, SelId(2), "Slim")}

\* expandAbstractAnswer(answer, question)
callExpandAbstractAnswer(answer, question) ==
    /\ assembled = NoCall
    /\ assembled' = [op |-> "expandAbstractAnswer",
                     args |-> [answer |-> answer, question |-> question],
                     result |-> expandAbstractAnswer(answer, question),
                     again |-> FALSE]
    /\ UNCHANGED <<interviewFiles, engine, entropy, steps, last, run>>

\* assemblePrompt(answers, refinements, weights, customElements)
callAssemblePrompt(answers, refinements, weights, customs) ==
    /\ assembled = NoCall
    /\ assembled' =
          [op |-> "assemblePrompt",
           args |-> [answers |-> answers, refinements |-> refinements,
                     weights |-> weights, customElements |-> customs],
           result |-> assemblePrompt(answers, refinements, weights, customs),
           again |-> FALSE]
    /\ UNCHANGED <<interviewFiles, engine, entropy, steps, last, run>>

\* normalizeTemplate(template, tags)
callNormalizeTemplate(template, tags) ==
    /\ assembled = NoCall
    /\ assembled' = [op |-> "normalizeTemplate",
                     args |-> [template |-> template, tags |-> tags],
                     result |-> normalizeTemplate(template, tags),
                     again |-> FALSE]
    /\ UNCHANGED <<interviewFiles, engine, entropy, steps, last, run>>

\* normalizeTemplate called on the result of the preceding call, same tags
callNormalizeTemplateAgain ==
    /\ assembled.op = "normalizeTemplate"
    /\ ~assembled.again
    /\ assembled' = [op |-> "normalizeTemplate",
                     args |-> [template |-> assembled.result, tags |-> assembled.args.tags],
                     result |-> normalizeTemplate(assembled.result, assembled.args.tags),
                     again |-> TRUE]
    /\ UNCHANGED <<interviewFiles, engine, entropy, steps, last, run>>

\* calls with up to MaxWeights weights and at most one custom element, and
\* calls with at most one weight and up to MaxCustoms custom elements
NextAssembler ==
    \/ \E answers \in AnswerLists, refinements \in RefinementLists,
          weights \in SeqsUpTo(WeightSamples, MaxWeights),
          customs \in SeqsUpTo(CustomSamples, 1) :
            callAssemblePrompt(answers, refinements, weights, customs)
    \/ \E answers \in AnswerLists, refinements \in RefinementLists,
          weights \in SeqsUpTo(WeightSamples, 1),
          customs \in SeqsUpTo(CustomSamples, MaxCustoms) :
            callAssemblePrompt(answers, refinements, weights, customs)
    \/ \E template \in TemplateSamples, tags \in SeqsUpTo(RuleTags, MaxTags) :
            callNormalizeTemplate(template, tags)
    \/ \E answers \in AnswerLists, w \in LabelledWeightSamples :
            callAssemblePrompt(answers, <<>>, <<w>>, <<>>)
    \/ callNormalizeTemplateAgain
    \/ \E answer \in LabelSamples, question \in QuestionSamples :
            callExpandAbstractAnswer(answer, question)

SpecAssembler == Init /\ [][NextAssembler]_vars

-----------------------------------------------------------------------------
(* Properties                                                              *)

CommittedIds ==
    {committedAnswers[i].id : i \in 1..Len(committedAnswers)}
      \cup {committedRefinements[i].id : i \in 1..Len(committedRefinements)}

BoundWeights == {i \in 1..Len(weightValues) : weightValues[i].associatedAnswerId # NoId}

\* C1: in every reachable state, every weight of weightValues that has an
\* associatedAnswerId references the id of a selection that is currently in
\* committedAnswers or committedRefinements.
C1_WeightsReferenceCommitted ==
    \A i \in BoundWeights : weightValues[i].associatedAnswerId \in CommittedIds

\* a commit has bound a weight to a committed selection
C1_Witness ==
    /\ BoundWeights # {}
    /\ last.op = "commitCurrentSelections"
    /\ last.changed

\* C2: after removeSelection(id) no weight has associatedAnswerId = id and no
\* committed answer or refinement has that id.
C2_RemoveCascades ==
    last.op = "removeSelection" =>
        /\ \A i \in 1..Len(weightValues) : weightValues[i].associatedAnswerId # last.arg
        /\ last.arg \notin CommittedIds

\* removeSelection has removed a selection together with a weight bound to it
C2_Witness ==
    /\ last.op = "removeSelection"
    /\ last.dropped > 0

\* C3: history always has at least one element and starts with "root", and
\* previous() called on a history of exactly one element changes nothing.
C3_HistoryStack ==
    /\ [](Len(history) >= 1 /\ history[1] = "root")
    /\ [][last'.op = "previous" /\ Len(history) = 1 => UNCHANGED engine]_vars

\* previous() has been called on the history <<"root">>, and elsewhere it popped
C3_Witness ==
    /\ last.op = "previous"
    /\ ~last.changed
    /\ Len(history) = 1
    /\ entropy > 0

\* C4 as stated: N goToNext() calls followed by N previous() calls leave
\* currentNodeId equal to its value before the first goToNext() call.
C4_RoundTrip_Original ==
    (run.n > 0 /\ run.back = run.n /\ run.pure) => currentNodeId = run.cur

\* C4 amended: N goToNext() calls that each move to a successor (with the
\* answer selections they need in between), followed by N previous() calls,
\* leave currentNodeId equal to the last element history had before the first
\* goToNext() call, and history ends with that element again; this is the
\* original currentNodeId whenever that node was the last element of history.
C4_RoundTrip ==
    (run.n > 0 /\ run.back = run.n /\ run.adv) =>
        /\ currentNodeId = run.top
        /\ Last(history) = run.top
        /\ (run.cur = run.top => currentNodeId = run.cur)

\* two goToNext() calls that moved, then two previous() calls
C4_Witness ==
    /\ run.n = 2
    /\ run.back = 2
    /\ run.adv

\* C5: right after commitCurrentSelections() the node that was current holds
\* no temporary answer, refinement or intensity.
C5_CommitClearsTemp ==
    last.op = "commitCurrentSelections" => last.node \notin TempNodes

\* a commit that promoted the temporary answer of the current node
C5_Witness ==
    /\ last.op = "commitCurrentSelections"
    /\ last.changed
    /\ committedAnswers # <<>>
    /\ Last(committedAnswers).nodeId = last.node
    /\ Last(committedAnswers).id = SelId(entropy)

\* C6: when goToNext, skipToNext, previous or jumpTo changes the position, and
\* when reset is called, the node that was current holds no temporary answer,
\* refinement or intensity afterwards.
C6_ExitClearsTemp ==
    (\/ last.op = "reset"
     \/ /\ last.op \in {"goToNext", "skipToNext", "previous", "jumpTo"}
        /\ last.changed)
    => last.node \notin TempNodes

\* a temporary answer was selected and goToNext() followed it to the successor,
\* and the node that was left has no temporary state
C6_Witness ==
    /\ last.op = "goToNext"
    /\ last.changed
    /\ currentNodeId # last.node
    /\ steps = 2

\* the operations that write uncommitted state only
UncommittedOps ==
    {"selectTempAnswer", "selectTempRefinement", "setIntensity", "setWeight",
     "setSliderEnabled"}

\* C7: getPreviewPrompt() depends on committed state only: selectTempAnswer,
\* selectTempRefinement, setIntensity, setWeight and setSliderEnabled never
\* change the prompt or the negative prompt it returns.
C7_PreviewCommittedOnly ==
    [][last'.op \in UncommittedOps => getPreviewPrompt' = getPreviewPrompt]_vars

InitialEngine ==
    /\ currentNodeId = "root"
    /\ history = <<"root">>
    /\ committedAnswers = <<>>
    /\ committedRefinements = <<>>
    /\ tempAnswers = EmptyMap
    /\ tempRefinements = EmptyMap
    /\ tempIntensities = EmptyMap
    /\ weightValues = <<>>
    /\ touchedWeights = {}
    /\ enabledSliders = EmptyMap
    /\ customElements = <<>>

\* C8: after reset() the engine state is the session-start state.
C8_ResetRestoresStart ==
    last.op = "reset" => InitialEngine

\* reset() was called on a state that differed from the session start and held
\* weights
C8_Witness ==
    /\ last.op = "reset"
    /\ last.changed
    /\ last.dropped > 0
    /\ last.node # "root"

IsPrefix(s, t) == Len(s) <= Len(t) /\ SubSeq(t, 1, Len(s)) = s

\* C9: no operation other than removeSelection and reset removes, reorders or
\* alters a committed answer or refinement: each step keeps the committed
\* collections as a prefix of the new ones, so a commit only appends, also
\* at a node that already has a committed selection.
C9_AppendOnly ==
    [][last'.op \notin {"removeSelection", "reset"} =>
          /\ IsPrefix(committedAnswers, committedAnswers')
          /\ IsPrefix(committedRefinements, committedRefinements')]_vars

\* two committed answers of the same node
C9_Witness ==
    /\ Len(committedAnswers) = 2
    /\ committedAnswers[1].nodeId = committedAnswers[2].nodeId
    /\ last.op = "commitCurrentSelections"

AllCommitted == committedAnswers \o committedRefinements

\* C10: the ids of the committed answers and refinements are pairwise
\* distinct, and none is a temporary id.
C10_DistinctIds ==
    /\ \A i, j \in 1..Len(AllCommitted) : i # j => AllCommitted[i].id # AllCommitted[j].id
    /\ \A i \in 1..Len(AllCommitted) :
          /\ AllCommitted[i].id[1] # "temp"
          /\ \A n \in DOMAIN tempAnswers : AllCommitted[i].id # tempAnswers[n].id
          /\ \A n \in DOMAIN tempRefinements : AllCommitted[i].id # tempRefinements[n].id

\* one commit promoted an answer and a refinement
C10_Witness ==
    /\ last.op = "commitCurrentSelections"
    /\ committedAnswers # <<>>
    /\ committedRefinements # <<>>
    /\ Last(committedAnswers).id = SelId(entropy - 1)
    /\ Last(committedRefinements).id = SelId(entropy)

\* the next pointer of the answer answerId of node, Undefined when there is none
NextOf(node, answerId) ==
    LET hits == {i \in 1..Len(node.answers) : node.answers[i].id = answerId}
    IN  IF hits = {} THEN Undefined
        ELSE node.answers[CHOOSE i \in hits : \A j \in hits : i <= j].next

\* the answer goToNext navigates by: the earliest committed answer of the
\* current node, else the temporary one, Undefined when there is neither
ChosenAnswerId ==
    LET own == {i \in 1..Len(committedAnswers) :
                   committedAnswers[i].nodeId = currentNodeId}
    IN  IF own # {}
        THEN committedAnswers[CHOOSE i \in own : \A j \in own : i <= j].answerId
        ELSE IF currentNodeId \in DOMAIN tempAnswers
        THEN tempAnswers[currentNodeId].answerId
        ELSE Undefined

\* C11: goToNext() on a node with answers moves to the next pointer of the
\* committed answer of the current node if there is one, otherwise of the
\* temporary answer, appends that successor to history and makes it current;
\* with neither answer, or with an answer without next, the state is unchanged.
C11_GoToNextResolves ==
    [][(last'.op = "goToNext" /\ HasCurrentNode /\ Len(currentNode.answers) > 0) =>
          LET nextId == IF ChosenAnswerId = Undefined THEN Undefined
                        ELSE NextOf(currentNode, ChosenAnswerId)
          IN  IF nextId # Undefined
              THEN /\ currentNodeId' = nextId
                   /\ history' = Append(history, nextId)
              ELSE UNCHANGED engine]_vars

\* goToNext() has followed the committed answer of the node it left
C11_Witness ==
    /\ last.op = "goToNext"
    /\ last.changed
    /\ \E i \in 1..Len(committedAnswers) :
          /\ committedAnswers[i].nodeId = last.node
          /\ NextOf(nodeMap[last.node], committedAnswers[i].answerId) = currentNodeId

\* the state after leaving the current node for nextId: nextId is pushed and
\* current, the temporary entries of the node left are gone, nothing else moved
MovedTo(nextId) ==
    /\ currentNodeId' = nextId
    /\ history' = Append(history, nextId)
    /\ tempAnswers' = MapDelete(tempAnswers, currentNodeId)
    /\ tempRefinements' = MapDelete(tempRefinements, currentNodeId)
    /\ tempIntensities' = MapDelete(tempIntensities, currentNodeId)
    /\ UNCHANGED <<committedAnswers, committedRefinements, weightValues,
                   touchedWeights, enabledSliders, customElements>>

\* C12: skipToNext() reaches, on a weight-only NSFW-prefixed node, the
\* successor state goToNext() reaches; otherwise it moves to the first
\* answer's next and, failing that, to the first refinement, whatever is
\* selected or committed, with the history push and the temp clearing of
\* goToNext().
C12_SkipResolves ==
    [][(last'.op = "skipToNext" /\ HasCurrentNode) =>
          LET target ==
                IF IsNsfwWeightOnly THEN NextTarget
                ELSE IF Len(currentNode.answers) > 0
                        /\ currentNode.answers[1].next # Undefined
                THEN currentNode.answers[1].next
                ELSE IF Len(currentNode.refinements) > 0
                THEN currentNode.refinements[1].id
                ELSE Undefined
          IN  IF target # Undefined THEN MovedTo(target) ELSE UNCHANGED engine]_vars

\* C13: the successor goToNext() or skipToNext() resolves is made current only
\* when it is a key of the node graph, so currentNodeId is a key of the node
\* graph in every reachable state.
C13_CurrentNodeExists == currentNodeId \in NodeKeys

\* C14: jumpTo(nodeId) with a nodeId that is no key of the node graph leaves
\* the entire engine state unchanged.
C14_JumpToMissing ==
    (last.op = "jumpTo" /\ last.arg[1] \notin NodeKeys) => ~last.changed

\* jumpTo of a missing node, called while the current node held a temporary
\* answer, which is still there
C14_Witness ==
    /\ last.op = "jumpTo"
    /\ last.arg[1] \notin NodeKeys
    /\ currentNodeId \in DOMAIN tempAnswers

\* C15 as stated: jumpToCategory(nodeId) with a nodeId absent from the node
\* graph still makes that id the current node.
C15_CategoryJumpUnguarded ==
    (last.op = "jumpToCategory" /\ last.arg[1] \notin NodeKeys) =>
        currentNodeId = last.arg[1]

\* C15 amended: jumpToCategory(nodeId) with a nodeId absent from the node
\* graph leaves the entire engine state unchanged, as jumpTo does.
C15_CategoryJumpGuarded ==
    (last.op = "jumpToCategory" /\ last.arg[1] \notin NodeKeys) => ~last.changed

\* jumpToCategory of a missing node has not made it current
C15_Witness ==
    /\ last.op = "jumpToCategory"
    /\ last.arg[1] \notin NodeKeys
    /\ currentNodeId # last.arg[1]

\* C16: jumpToCategory(nodeId) leaves the temporary answers, refinements and
\* intensities of every node, the committed selections and the weights
\* unchanged, so a temporary selection is still there when a later category
\* jump returns to its node.
C16_CategoryJumpKeeps ==
    [][last'.op = "jumpToCategory" =>
          UNCHANGED <<tempAnswers, tempRefinements, tempIntensities,
                      committedAnswers, committedRefinements, weightValues>>]_vars

\* a category jump has returned to a node whose temporary answer was selected
\* before it was left
C16_Witness ==
    /\ last.op = "jumpToCategory"
    /\ last.changed
    /\ currentNodeId # last.node
    /\ currentNodeId \in DOMAIN tempAnswers

\* the ids of the answers of the node that was current at the last call
LastNodeAnswerIds ==
    IF last.node \in NodeKeys
    THEN {nodeMap[last.node].answers[i].id : i \in 1..Len(nodeMap[last.node].answers)}
    ELSE {}

\* C17: selectTempAnswer(answerId) and selectTempRefinement(answerId) with an
\* answerId that is not among the current node's answers leave the entire
\* engine state unchanged.
C17_SelectMissing ==
    (last.op \in {"selectTempAnswer", "selectTempRefinement"}
       /\ last.arg[1] \notin LastNodeAnswerIds) => ~last.changed

\* selectTempRefinement with an unknown answer on a node that has answers
C17_Witness ==
    /\ last.op = "selectTempRefinement"
    /\ LastNodeAnswerIds # {}
    /\ last.arg[1] \notin LastNodeAnswerIds

\* m is the map `before` with the entry of the current node overwritten by a
\* selection of answerId
Overwritten(m, before, answerId) ==
    /\ DOMAIN m = DOMAIN before \cup {currentNodeId}
    /\ m[currentNodeId].answerId = answerId
    /\ \A n \in DOMAIN before \ {currentNodeId} : m[n] = before[n]

\* C18: a valid selectTempAnswer(x) makes x the temporary answer of the current
\* node whatever was there and leaves the temporary refinements alone, a valid
\* selectTempRefinement(x) does the same with the roles exchanged, and both
\* leave currentNodeId, history, the committed selections and the weights
\* unchanged.
C18_SelectOverwritesSlot ==
    [][(last'.op \in {"selectTempAnswer", "selectTempRefinement"}
          /\ HasCurrentNode
          /\ \E i \in 1..Len(currentNode.answers) :
                currentNode.answers[i].id = last'.arg[1]) =>
          /\ IF last'.op = "selectTempAnswer"
             THEN /\ Overwritten(tempAnswers', tempAnswers, last'.arg[1])
                  /\ UNCHANGED tempRefinements
             ELSE /\ Overwritten(tempRefinements', tempRefinements, last'.arg[1])
                  /\ UNCHANGED tempAnswers
          /\ UNCHANGED <<currentNodeId, history, committedAnswers,
                         committedRefinements, weightValues>>]_vars

\* a temporary answer was selected on a node that holds a temporary refinement
C18_Witness ==
    /\ last.op = "selectTempAnswer"
    /\ last.changed
    /\ currentNodeId \in DOMAIN tempAnswers
    /\ currentNodeId \in DOMAIN tempRefinements

\* the value commit takes for a weight definition: that of the slider entry
\* setWeight wrote, else the default of the definition
SliderValue(weightAttr) ==
    LET unbound == {i \in 1..Len(weightValues) :
                       /\ weightValues[i].attrId = weightAttr.id
                       /\ weightValues[i].associatedAnswerId = NoId}
    IN  IF unbound = {} THEN weightAttr.default
        ELSE weightValues[CHOOSE i \in unbound : \A j \in unbound : i <= j].value

\* entry is a committed weight instance (id `weight-...`), not a slider entry
IsCommittedWeight(entry) == entry.key[1] \in {"weight", "weight-standalone"}

\* C19: commitCurrentSelections() on a node without temporary answer and
\* without temporary refinement leaves committedAnswers and
\* committedRefinements unchanged, and still commits every weight of the
\* current node whose slider is enabled and which was touched.
C19_CommitWithoutSelection ==
    [][(last'.op = "commitCurrentSelections"
          /\ currentNodeId \notin DOMAIN tempAnswers
          /\ currentNodeId \notin DOMAIN tempRefinements) =>
          /\ UNCHANGED <<committedAnswers, committedRefinements>>
          /\ HasCurrentNode =>
                \A k \in 1..Len(currentNode.weights) :
                    LET w == currentNode.weights[k]
                    IN  (Has(enabledSliders, w.id) /\ enabledSliders[w.id]
                           /\ w.id \in touchedWeights) =>
                          \E i \in 1..Len(weightValues') :
                              /\ weightValues'[i].attrId = w.id
                              /\ IsCommittedWeight(weightValues'[i])
                              /\ weightValues'[i].value = SliderValue(w)
                              /\ \/ i > Len(weightValues)
                                 \/ weightValues'[i].associatedAnswerId # NoId]_vars

\* a commit without any selection has committed a standalone weight
C19_Witness ==
    /\ last.op = "commitCurrentSelections"
    /\ committedAnswers = <<>>
    /\ committedRefinements = <<>>
    /\ \E i \in 1..Len(weightValues) : weightValues[i].key[1] = "weight-standalone"

\* the elements of a committed collection whose id is not id
OtherSelections(selections, id) == SelectSeq(selections, LAMBDA x : x.id # id)

\* the weights that are not bound to id
OtherWeights(weights, id) == SelectSeq(weights, LAMBDA w : w.associatedAnswerId # id)

\* C20: removeSelection(id) leaves every committed selection with another id,
\* every weight bound to another id, every standalone weight, currentNodeId,
\* history and all temporary state unchanged, and with an id that matches no
\* committed selection it leaves the whole state unchanged.
C20_RemoveTouchesOnlyId ==
    [][last'.op = "removeSelection" =>
          /\ OtherSelections(committedAnswers', last'.arg)
                = OtherSelections(committedAnswers, last'.arg)
          /\ OtherSelections(committedRefinements', last'.arg)
                = OtherSelections(committedRefinements, last'.arg)
          /\ OtherWeights(weightValues', last'.arg) = OtherWeights(weightValues, last'.arg)
          /\ UNCHANGED <<currentNodeId, history, tempAnswers, tempRefinements,
                         tempIntensities, touchedWeights, enabledSliders,
                         customElements>>
          /\ last'.arg \notin CommittedIds => UNCHANGED engine]_vars

\* removeSelection has deleted the weights of a selection and left another
\* weight in place
C20_Witness ==
    /\ last.op = "removeSelection"
    /\ last.dropped > 0
    /\ weightValues # <<>>

\* the entries of weights that are committed instances of attribute attrId
InstancesOf(weights, attrId) ==
    SelectSeq(weights, LAMBDA w : w.attrId = attrId /\ IsCommittedWeight(w))

\* a commit at the current position has an answer label to give its weights:
\* that of the selection it promotes, else that of the nearest committed
\* selection behind the current position in history
HasAnswerLabel ==
    \/ Has(tempAnswers, currentNodeId)
    \/ Has(tempRefinements, currentNodeId)
    \/ Len(history) > 1 /\ ContextualSelection.label # Undefined

\* C21: commitCurrentSelections() adds a weight instance for a weight
\* definition of the current node if and only if the definition's slider is
\* enabled and the weight is touched or has a resolvable contextual answer
\* label; the instance carries the value stored for the attribute, else the
\* definition's default.
C21_CommitsWeightIff ==
    [][(last'.op = "commitCurrentSelections" /\ HasCurrentNode) =>
          \A k \in 1..Len(AllWeights) :
              LET w == AllWeights[k]
                  enabled == Has(enabledSliders, w.id) /\ enabledSliders[w.id]
              IN  IF enabled /\ (w.id \in touchedWeights \/ HasAnswerLabel)
                  THEN \E i \in 1..Len(weightValues') :
                          /\ weightValues'[i].attrId = w.id
                          /\ IsCommittedWeight(weightValues'[i])
                          /\ weightValues'[i].value = SliderValue(w)
                          /\ \/ i > Len(weightValues)
                             \/ weightValues'[i].associatedAnswerId # NoId
                  ELSE InstancesOf(weightValues', w.id) = InstancesOf(weightValues, w.id)]_vars

\* the committed weight instances a step has written: the entries of
\* weightValues' that are new or differ from the entry they replace
WrittenWeights ==
    {i \in 1..Len(weightValues') :
        /\ IsCommittedWeight(weightValues'[i])
        /\ i <= Len(weightValues) => weightValues'[i] # weightValues[i]}

\* C22: a weight committed by commitCurrentSelections() is bound to the
\* selection the same call commits (answer or refinement); if the call commits
\* none, to the nearest committed selection walking backward through history;
\* if there is none either, it is standalone, without associatedAnswerId.
C22_WeightBinding ==
    [][last'.op = "commitCurrentSelections" =>
          \A i \in WrittenWeights :
              LET id == weightValues'[i].associatedAnswerId
                  hasAnswer == Has(tempAnswers, currentNodeId)
                  hasRefinement == Has(tempRefinements, currentNodeId)
                  contextual == IF Len(history) > 1 THEN ContextualSelection ELSE NoSelection
              IN  IF hasAnswer \/ hasRefinement
                  THEN \/ hasAnswer /\ id = Last(committedAnswers').id
                       \/ hasRefinement /\ id = Last(committedRefinements').id
                  ELSE id = contextual.id]_vars

\* C23: after commitCurrentSelections() no weight id of the committed node
\* remains in touchedWeights, neither of the node's own weights nor of the
\* weights of its nested refinements that the call considered for commit.
C23_TouchedCleared ==
    (last.op = "commitCurrentSelections" /\ NodeMapHas(last.node)) =>
        \A k \in 1..Len(nodeMap[last.node].weights \o RefinementWeights(nodeMap[last.node].refinements)) :
            (nodeMap[last.node].weights \o RefinementWeights(nodeMap[last.node].refinements))[k].id
                \notin touchedWeights

\* a refinement (temporary or committed) is selected for refinement id
RefinementSelected(id) ==
    \/ \E r \in Range(committedRefinements) : r.refinementId = id
    \/ Has(tempRefinements, id)

\* C24: isFinished() is true exactly when the current node has no answers (a
\* refinement node without answers and with nothing selected included), or it
\* is a refinement node with a refinement selected for it and no answer with a
\* next, or it is a regular node with no answer with a next and no refinement
\* still unanswered. A current node that the graph does not define counts as
\* having no answers.
C24_IsFinishedExactly ==
    isFinished <=>
      \/ ~HasCurrentNode
      \/ Len(currentNode.answers) = 0
      \/ /\ StartsWithRefine(currentNodeId)
         /\ RefinementSelected(currentNodeId)
         /\ \A a \in Range(currentNode.answers) : a.next = Undefined
      \/ /\ ~StartsWithRefine(currentNodeId)
         /\ \A a \in Range(currentNode.answers) : a.next = Undefined
         /\ \A r \in Range(currentNode.refinements) : RefinementSelected(r.id)

\* the ids of the committed selections that originate at node "root"
RootSelectionIds ==
    {a.id : a \in {x \in Range(committedAnswers) : x.nodeId = "root"}}
      \cup {r.id : r \in {x \in Range(committedRefinements) : x.refinementId = "root"}}

\* C25: an intensity weight whose bound selection originates at "root" never
\* appears in the assembled prompt: the engine holds no intensity weight bound
\* to a selection made at root, and the assembler, handed an intensity weight
\* bound to a committed root answer, emits no fragment for it.
C25_NoRootIntensity ==
    /\ \A w \in Range(weightValues) :
          w.attrId = "intensity" => w.associatedAnswerId \notin RootSelectionIds
    /\ \A a \in Range(committedAnswers) :
          a.nodeId = "root" =>
            WeightParts(committedAnswers,
                        <<WeightValue(WeightId(a.id, "intensity"), "intensity", 150,
                                      "intensity", <<>>, a.id, a.label)>>,
                        {}) = <<>>

\* a commit at root has promoted an answer while the intensity slider was on
C25_Witness ==
    /\ last.op = "commitCurrentSelections"
    /\ last.node = "root"
    /\ last.changed
    /\ Has(enabledSliders, "intensity") /\ enabledSliders["intensity"]
    /\ \E a \in Range(committedAnswers) : a.nodeId = "root"

\* the number of places where sub starts in s
Occurrences(s, sub) == Cardinality({i \in 1..Len(s) : StartsAt(s, i, sub)})

\* C26: in assemblePrompt, if two weight instances produce the same processed
\* string, the prompt has exactly one "(text:value)" fragment for that string,
\* with the value of the first such weight in collection order; no two weight
\* fragments of a prompt have the same text.
C26_OneFragmentPerText ==
    assembled.op = "assemblePrompt" =>
        LET weights == assembled.args.weights
            text(i) == ProcessedText(assembled.args.answers, weights[i])
        IN  \A i \in 1..Len(weights) :
                text(i) # Undefined =>
                    LET first == CHOOSE j \in 1..i :
                                   text(j) = text(i) /\ \A k \in 1..(j - 1) : text(k) # text(i)
                    IN  /\ Occurrences(assembled.result.prompt, "(" \o text(i) \o ":") = 1
                        /\ Includes(assembled.result.prompt,
                                    Fragment(text(i), weights[first].value))

\* a call with two weights of the same processed string and different values
C26_Witness ==
    /\ assembled.op = "assemblePrompt"
    /\ \E i, j \in 1..Len(assembled.args.weights) :
          /\ i < j
          /\ ProcessedText(assembled.args.answers, assembled.args.weights[i]) # Undefined
          /\ ProcessedText(assembled.args.answers, assembled.args.weights[i])
               = ProcessedText(assembled.args.answers, assembled.args.weights[j])
          /\ assembled.args.weights[i].value # assembled.args.weights[j].value

\* the fragments of the weights that are the first of their processed string,
\* in collection order
FirstFragments(answers, weights) ==
    LET text(i) == ProcessedText(answers, weights[i])
        emitting == {i \in 1..Len(weights) :
                       text(i) # Undefined /\ \A j \in 1..(i - 1) : text(j) # text(i)}
        at(n) == CHOOSE i \in emitting : Cardinality({j \in emitting : j < i}) = n - 1
    IN  [n \in 1..Cardinality(emitting) |-> Fragment(text(at(n)), weights[at(n)].value)]

\* the texts of the elements of customs that are enabled and of type `type`
TextsOfType(customs, type) ==
    LET chosen == SelectSeq(customs, LAMBDA c : c.enabled /\ c.type = type)
    IN  [i \in 1..Len(chosen) |-> chosen[i].text]

\* C27: the prompt is the ", "-join of one part per committed answer in
\* collection order, one part per committed refinement in collection order,
\* the emitted weight fragments in collection order, then the text of every
\* enabled custom element of type prompt in list order; disabled elements and
\* elements of type negative contribute no part.
C27_PromptOrder ==
    assembled.op = "assemblePrompt" =>
        LET args == assembled.args
        IN  assembled.result.prompt =
              Join([i \in 1..Len(args.answers) |-> AnswerPart(args.answers[i])]
                     \o [i \in 1..Len(args.refinements) |-> RefinementPart(args.refinements[i])]
                     \o FirstFragments(args.answers, args.weights)
                     \o TextsOfType(args.customElements, "prompt"),
                   ", ")

\* a call with a part of each kind, a disabled custom element or one of type
\* negative among them
C27_Witness ==
    /\ assembled.op = "assemblePrompt"
    /\ assembled.args.answers # <<>>
    /\ assembled.args.refinements # <<>>
    /\ FirstFragments(assembled.args.answers, assembled.args.weights) # <<>>
    /\ TextsOfType(assembled.args.customElements, "prompt") # <<>>
    /\ Len(TextsOfType(assembled.args.customElements, "prompt")) < Len(assembled.args.customElements)

\* C28: the negative prompt is the fixed base list followed by the text of
\* every enabled custom element of type negative in list order, joined with
\* ", "; it does not depend on answers, refinements and weights, and the text
\* of a disabled element does not appear in it.
C28_NegativePrompt ==
    assembled.op = "assemblePrompt" =>
        LET customs == assembled.args.customElements
            negativePrompt == assembled.result.negativePrompt
        IN  /\ negativePrompt =
                 Join(<<"deformed, distorted, extra limbs, low detail, low quality, bad anatomy">>
                        \o TextsOfType(customs, "negative"),
                      ", ")
            /\ \A c \in Range(customs) :
                   (~c.enabled /\ \A d \in Range(customs) : d.enabled => d.text # c.text)
                      => ~Includes(negativePrompt, c.text)

\* a call with selections or weights, an enabled element of type negative and
\* a disabled one
C28_Witness ==
    /\ assembled.op = "assemblePrompt"
    /\ assembled.args.answers # <<>>
    /\ assembled.args.weights # <<>>
    /\ \E c, d \in Range(assembled.args.customElements) :
          c.enabled /\ c.type = "negative" /\ ~d.enabled /\ d.type = "negative"

\* C29: template normalization is idempotent: for every template t and every
\* list of tags of the rule table, normalizeTemplate(normalizeTemplate(t,
\* tags), tags) equals normalizeTemplate(t, tags).
C29_NormalizeIdempotent ==
    (assembled.op = "normalizeTemplate" /\ assembled.again) =>
        assembled.result = assembled.args.template

\* C30: a committed answer whose origin node is "root" contributes to the
\* prompt exactly its lower-cased label, without a subject taken from the
\* question and without body-type suffix: the prompt of a call whose first
\* answer is a root answer begins with that label, lower-cased, and either
\* ends there or goes on with the next part.
C30_RootAnswerLabel ==
    (/\ assembled.op = "assemblePrompt"
     /\ assembled.args.answers # <<>>
     /\ assembled.args.answers[1].nodeId = "root") =>
        LET prompt == assembled.result.prompt
            label == ToLowerCase(assembled.args.answers[1].label)
        IN  /\ StartsAt(prompt, 1, label)
            /\ \/ Len(prompt) = Len(label)
               \/ StartsAt(prompt, Len(label) + 1, ", ")

\* the question is about breast/bust/chest anatomy
BreastContext(question) ==
    \E topic \in {"breast", "bust", "chest anatomy", "upper torso", "torso shape"} :
        Includes(ToLowerCase(question), topic)

\* C31: outside a bust/chest question context expandAbstractAnswer returns the
\* label unchanged whenever the lower-cased, trimmed label is not in the
\* intensity-adjective catalogue, labels that are only in the
\* anatomical-shape catalogue ("Round", "Full", "Athletic") included.
C31_NonAbstractUnchanged ==
    (/\ assembled.op = "expandAbstractAnswer"
     /\ ~BreastContext(assembled.args.question)
     /\ Trim(ToLowerCase(assembled.args.answer)) \notin ABSTRACT_ANSWERS) =>
        assembled.result = assembled.args.answer

\* C32: in a bust/chest question context expandAbstractAnswer returns, for
\* every label of the anatomical-shape catalogue and of the
\* intensity-adjective catalogue, a descriptive phrase that differs from the
\* label: the fall-back to the unmodified label is not taken.
C32_CatalogueExpanded ==
    (/\ assembled.op = "expandAbstractAnswer"
     /\ BreastContext(assembled.args.question)
     /\ Trim(ToLowerCase(assembled.args.answer))
           \in ABSTRACT_ANSWERS \cup BREAST_SHAPE_KEYWORDS) =>
        /\ assembled.result # assembled.args.answer
        /\ assembled.result # Trim(ToLowerCase(assembled.args.answer))

C34_CurrentIsTop == currentNodeId = Last(history)

C36_TempOnlyAtCurrent ==
    DOMAIN tempAnswers \cup DOMAIN tempRefinements \subseteq {currentNodeId}

\* a temporary selection was made at a node the session had moved to, with
\* both an answer and a refinement selected there
C36_Witness ==
    /\ currentNodeId # "root"
    /\ Len(history) > 1
    /\ DOMAIN tempAnswers = {currentNodeId}
    /\ DOMAIN tempRefinements = {currentNodeId}
    /\ last.op \in {"selectTempAnswer", "selectTempRefinement"}

\* the labels of the committed selections with id `id`
LabelsOf(id) ==
    {a.label : a \in {x \in Range(committedAnswers) : x.id = id}}
      \cup {r.label : r \in {x \in Range(committedRefinements) : x.id = id}}

\* C37: in every reachable state each weight bound to a selection carries the
\* label of the committed selection its associatedAnswerId refers to, also
\* when a commit promotes a refinement without an answer and binds the weight
\* through the backward history lookup.
C37_WeightLabel ==
    \A w \in Range(weightValues) :
        (w.associatedAnswerId # NoId /\ LabelsOf(w.associatedAnswerId) # {}) =>
            w.answerLabel \in LabelsOf(w.associatedAnswerId)

\* C38: getPreviewPrompt() passes to assemblePrompt every weight bound to a
\* currently committed selection, be it a committed answer or a committed
\* refinement; a weight that a commit bound to a committed refinement through
\* the history lookup is among them.
C38_PreviewHasBoundWeights ==
    \A w \in Range(weightValues) :
        w.associatedAnswerId \in CommittedIds => w \in Range(PreviewWeights)

====
